---- MODULE Spec2Model ----
(***************************************************************************)
(* Model of the go-gitness client library: the Client built by NewClient,  *)
(* its verb helpers (Get/Post/Put/Patch/Delete/DeleteWithResponse),        *)
(* performListRequest, the service operations that build a request        *)
(* directly on the underlying req/v3 client, and the helpers they share   *)
(* (checkResponse, buildFullURL, parsePaginationHeaders).                  *)
(*                                                                         *)
(* Strings are sequences of one-character strings so that escaping and    *)
(* URL resolution are computed character by character.                    *)
(***************************************************************************)
EXTENDS Integers, Sequences, FiniteSets, TLC

\* no value
NIL == "nil"

(***************************************************************************)
(* Strings and net/url                                                     *)
(***************************************************************************)

\* const defaultBaseURL = "https://gitness.com/"
defaultBaseURL ==
  <<"h","t","t","p","s",":","/","/","g","i","t","n","e","s","s",".","c","o","m","/">>

\* const apiVersionPath = "api/v1"
apiVersionPath == <<"a","p","i","/","v","1">>

\* 'a'..'z'
LowerLetters ==
  {"a","b","c","d","e","f","g","h","i","j","k","l","m","n","o","p","q","r","s","t","u","v","w","x","y","z"}

\* 'A'..'Z'
UpperLetters ==
  {"A","B","C","D","E","F","G","H","I","J","K","L","M","N","O","P","Q","R","S","T","U","V","W","X","Y","Z"}

\* '0'..'9'
Digits == {"0","1","2","3","4","5","6","7","8","9"}

\* strings.ToLower on one character
ToLowerCh(c) ==
  CASE c = "A" -> "a"
    [] c = "B" -> "b"
    [] c = "C" -> "c"
    [] c = "D" -> "d"
    [] c = "E" -> "e"
    [] c = "F" -> "f"
    [] c = "G" -> "g"
    [] c = "H" -> "h"
    [] c = "I" -> "i"
    [] c = "J" -> "j"
    [] c = "K" -> "k"
    [] c = "L" -> "l"
    [] c = "M" -> "m"
    [] c = "N" -> "n"
    [] c = "O" -> "o"
    [] c = "P" -> "p"
    [] c = "Q" -> "q"
    [] c = "R" -> "r"
    [] c = "S" -> "s"
    [] c = "T" -> "t"
    [] c = "U" -> "u"
    [] c = "V" -> "v"
    [] c = "W" -> "w"
    [] c = "X" -> "x"
    [] c = "Y" -> "y"
    [] c = "Z" -> "z"
    [] OTHER -> c

\* strings.ToLower(s)
ToLower(s) == [i \in 1..Len(s) |-> ToLowerCh(s[i])]

\* strings.IndexByte(s, c) + 1: the index of the first occurrence of c in s,
\* 0 when there is none
IndexOf(s, c) ==
  LET at == {i \in 1..Len(s) : s[i] = c}
  IN  IF at = {} THEN 0 ELSE CHOOSE i \in at : \A j \in at : i <= j

\* strings.LastIndex(s, c) + 1: the index of the last occurrence of c in s,
\* 0 when there is none
LastIndexOf(s, c) ==
  LET at == {i \in 1..Len(s) : s[i] = c}
  IN  IF at = {} THEN 0 ELSE CHOOSE i \in at : \A j \in at : j <= i

\* the pieces lo..hi of a sequence of strings written one after the other
RECURSIVE Concat(_, _, _)
Concat(pieces, lo, hi) ==
  IF lo > hi THEN <<>>
  ELSE IF lo = hi THEN pieces[lo]
  ELSE Concat(pieces, lo, (lo + hi) \div 2) \o Concat(pieces, (lo + hi) \div 2 + 1, hi)

\* strings.HasPrefix(s, p)
HasPrefix(s, p) == Len(s) >= Len(p) /\ SubSeq(s, 1, Len(p)) = p

\* net/url shouldEscape(c, mode): the unreserved characters are never escaped;
\* of the reserved ones, encodePath escapes only '?', encodePathSegment also
\* escapes '/', ';' and ','; everything else is escaped.
shouldEscape(c, mode) ==
  IF c \in LowerLetters \cup UpperLetters \cup Digits \cup {"-", "_", ".", "~"}
  THEN FALSE
  ELSE IF c \in {"$", "&", "+", ",", "/", ":", ";", "=", "?", "@"}
  THEN IF mode = "encodePath" THEN c = "?"
       ELSE c \in {"/", ";", ",", "?"}
  ELSE TRUE

\* the %XX form of a character: the upper-case hex digits of its byte, written
\* out for the characters that occur in paths here (any other one is shown
\* as %00)
PercentCode(c) ==
  CASE c = "/" -> <<"%","2","F">>
    [] c = "%" -> <<"%","2","5">>
    [] c = " " -> <<"%","2","0">>
    [] c = "?" -> <<"%","3","F">>
    [] c = ";" -> <<"%","3","B">>
    [] c = "," -> <<"%","2","C">>
    [] OTHER -> <<"%","0","0">>

\* net/url escape(s, mode)
escape(s, mode) ==
  Concat([i \in 1..Len(s) |->
            IF shouldEscape(s[i], mode) THEN PercentCode(s[i]) ELSE <<s[i]>>],
         1, Len(s))

\* url.PathEscape(s)
PathEscape(s) == escape(s, "encodePathSegment")

\* net/url ishex
HexDigits == Digits \cup {"A","B","C","D","E","F","a","b","c","d","e","f"}

\* the character a %XX triple stands for, NIL when XX is not two hex digits
PercentDecode(h1, h2) ==
  IF h1 \notin HexDigits \/ h2 \notin HexDigits THEN NIL
  ELSE CASE <<h1, h2>> = <<"2","F">> -> "/"
         [] <<h1, h2>> = <<"2","f">> -> "/"
         [] <<h1, h2>> = <<"2","5">> -> "%"
         [] <<h1, h2>> = <<"2","0">> -> " "
         [] <<h1, h2>> = <<"3","F">> -> "?"
         [] <<h1, h2>> = <<"3","B">> -> ";"
         [] <<h1, h2>> = <<"2","C">> -> ","
         [] OTHER -> "#"

\* net/url unescape(s, encodePath): [ok, s]; an ill-formed %XX is an error
\* (a hex digit is never '%', so the characters of a well-formed %XX are the
\* two that follow a '%')
unescape(s) ==
  LET ok == \A i \in 1..Len(s) :
              s[i] = "%" => i + 2 <= Len(s) /\ PercentDecode(s[i + 1], s[i + 2]) # NIL
      inTriple(i) == (i > 1 /\ s[i - 1] = "%") \/ (i > 2 /\ s[i - 2] = "%")
  IN  IF ~ok THEN [ok |-> FALSE, s |-> <<>>]
      ELSE [ok |-> TRUE,
            s |-> Concat([i \in 1..Len(s) |->
                            IF s[i] = "%" THEN <<PercentDecode(s[i + 1], s[i + 2])>>
                            ELSE IF inTriple(i) THEN <<>>
                            ELSE <<s[i]>>],
                         1, Len(s))]

\* net/url validEncoded(s, encodePath): s may be used as the escaped path as is
validEncoded(s) ==
  \A i \in 1..Len(s) :
    \/ s[i] \in {"!", "$", "&", "'", "(", ")", "*", "+", ",", ";", "=", ":", "@", "[", "]", "%"}
    \/ ~shouldEscape(s[i], "encodePath")

\* (*URL).setPath(p): Path is the unescaped p, RawPath is kept only when p is
\* not the default encoding of Path
setPath(p) ==
  [ok |-> unescape(p).ok,
   Path |-> unescape(p).s,
   RawPath |-> IF unescape(p).ok /\ escape(unescape(p).s, "encodePath") = p THEN <<>> ELSE p]

\* (*URL).EscapedPath()
EscapedPath(u) ==
  IF u.RawPath # <<>> /\ validEncoded(u.RawPath)
     /\ unescape(u.RawPath).ok /\ unescape(u.RawPath).s = u.Path
  THEN u.RawPath
  ELSE escape(u.Path, "encodePath")

\* net/url getScheme(rawURL): [ok, scheme, rest]
\* (its loop stops at the first character that is no letter, digit, '+', '-'
\* or '.': index i below)
getScheme(s) ==
  LET stops == {j \in 1..Len(s) :
                  s[j] \notin LowerLetters \cup UpperLetters \cup Digits \cup {"+", "-", "."}}
      i == IF stops = {} THEN 0 ELSE CHOOSE j \in stops : \A k \in stops : j <= k
      noScheme == [ok |-> TRUE, scheme |-> <<>>, rest |-> s]
  IN  IF s # <<>> /\ s[1] \in Digits \cup {"+", "-", "."} THEN noScheme
      ELSE IF i = 0 \/ s[i] # ":" THEN noScheme
      ELSE IF i = 1 THEN [ok |-> FALSE, scheme |-> <<>>, rest |-> <<>>]
      ELSE [ok |-> TRUE, scheme |-> SubSeq(s, 1, i - 1), rest |-> SubSeq(s, i + 1, Len(s))]

\* the authority block of net/url parse: "//" introduces the authority, which
\* ends at the next '/'; [HasAuth, Host, rest]
parseAuthority(rest) ==
  IF ~HasPrefix(rest, <<"/", "/">>)
  THEN [HasAuth |-> FALSE, Host |-> <<>>, rest |-> rest]
  ELSE IF IndexOf(SubSeq(rest, 3, Len(rest)), "/") = 0
  THEN [HasAuth |-> TRUE, Host |-> SubSeq(rest, 3, Len(rest)), rest |-> <<>>]
  ELSE [HasAuth |-> TRUE,
        Host |-> SubSeq(rest, 3, IndexOf(SubSeq(rest, 3, Len(rest)), "/") + 1),
        rest |-> SubSeq(rest, IndexOf(SubSeq(rest, 3, Len(rest)), "/") + 2, Len(rest))]

\* net/url parse after getScheme returned g and the authority block a, with
\* sp the outcome of setPath: a relative path whose first segment holds a
\* colon and a host with a space are errors; the scheme is lower-cased
parse(g, a, sp) ==
  [ok |-> /\ g.ok
          /\ sp.ok
          /\ ~(/\ g.scheme = <<>>
               /\ ~a.HasAuth
               /\ IndexOf(a.rest, ":") > 0
               /\ (IndexOf(a.rest, "/") = 0 \/ IndexOf(a.rest, ":") < IndexOf(a.rest, "/")))
          /\ " " \notin {a.Host[i] : i \in 1..Len(a.Host)},
   Scheme |-> ToLower(g.scheme),
   HasAuth |-> a.HasAuth,
   Host |-> a.Host,
   Path |-> sp.Path,
   RawPath |-> sp.RawPath]

\* net/url parse after the authority block: the rest is the path
parseRest(g, a) == parse(g, a, setPath(a.rest))

\* net/url parse after getScheme: what follows the scheme starts with the
\* authority block
parseScheme(g) == parseRest(g, parseAuthority(g.rest))

\* url.Parse(rawURL): [ok, Scheme, HasAuth, Host, Path, RawPath]
urlParse(rawURL) == parseScheme(getScheme(rawURL))

\* (*URL).String(): the scheme, the authority and path, the escaped path
stringOf(u, path) ==
  (IF u.Scheme # <<>> THEN u.Scheme \o <<":">> ELSE <<>>)
  \o (IF u.HasAuth THEN <<"/", "/">> \o u.Host ELSE <<>>)
  \o (IF path # <<>> /\ Head(path) # "/" /\ u.Host # <<>> THEN <<"/">> ELSE <<>>)
  \o path

\* u.String() of a parsed URL u
urlString(u) == stringOf(u, EscapedPath(u))

\* strings.Cut(s, "/"): [elem, remaining, found]
Cut(s) ==
  LET i == IndexOf(s, "/")
  IN  IF i = 0 THEN [elem |-> s, remaining |-> <<>>, found |-> FALSE]
      ELSE [elem |-> SubSeq(s, 1, i - 1), remaining |-> SubSeq(s, i + 1, Len(s)), found |-> TRUE]

\* the loop of net/url resolvePath: dst is the path written so far (with its
\* leading '/'), first tells that no element was written after that '/'
RECURSIVE resolveLoop(_, _, _)
resolveLoop(remaining, dst, first) ==
  LET c == Cut(remaining)
      str == Tail(dst)
      index == LastIndexOf(str, "/")
      dst2 == IF c.elem = <<".">> THEN dst
              ELSE IF c.elem = <<".", ".">>
              THEN (IF index = 0 THEN <<"/">> ELSE <<"/">> \o SubSeq(str, 1, index - 1))
              ELSE (IF first THEN dst ELSE dst \o <<"/">>) \o c.elem
      first2 == IF c.elem = <<".">> THEN FALSE
                ELSE IF c.elem = <<".", ".">> THEN (IF index = 0 THEN TRUE ELSE first)
                ELSE FALSE
  IN  IF c.found THEN resolveLoop(c.remaining, dst2, first2)
      ELSE IF c.elem = <<".">> \/ c.elem = <<".", ".">> THEN dst2 \o <<"/">>
      ELSE dst2

\* the end of net/url resolvePath: r is what the loop wrote
resolved(r) == IF Len(r) > 1 /\ r[2] = "/" THEN Tail(r) ELSE r

\* net/url resolvePath(base, ref)
resolvePath(base, ref) ==
  IF ref = <<>> THEN (IF base = <<>> THEN <<>> ELSE resolved(resolveLoop(base, <<"/">>, TRUE)))
  ELSE IF Head(ref) # "/"
  THEN resolved(resolveLoop(SubSeq(base, 1, LastIndexOf(base, "/")) \o ref, <<"/">>, TRUE))
  ELSE resolved(resolveLoop(ref, <<"/">>, TRUE))

\* the URL with the scheme and host of base and the path sp that setPath made
withPath(base, sp) ==
  [ok |-> TRUE, Scheme |-> base.Scheme, HasAuth |-> base.HasAuth, Host |-> base.Host,
   Path |-> sp.Path, RawPath |-> sp.RawPath]

\* base.ResolveReference(&url.URL{Path: path}): the reference has neither
\* scheme nor host, so scheme and host come from base and the path is resolved
ResolveReference(base, path) ==
  withPath(base, setPath(resolvePath(EscapedPath(base),
                                     EscapedPath([Path |-> path, RawPath |-> <<>>]))))

\* Client.buildFullURL(path) for a client whose base URL is baseURL
buildFullURL(baseURL, path) ==
  urlString(ResolveReference(urlParse(baseURL \o apiVersionPath \o <<"/">>), path))

(***************************************************************************)
(* Optional values (Go pointers that may be nil)                           *)
(***************************************************************************)

\* a nil pointer
None == <<>>

\* a pointer to v
Some(v) == <<v>>

(***************************************************************************)
(* Client construction                                                     *)
(***************************************************************************)

\* const userAgent = "go-gitness"
userAgent == "go-gitness"

\* the service fields of Client
Services ==
  {"Admin", "Audit", "Auth", "Checks", "CiCache", "Connectors", "Gitspaces",
   "InfraProviders", "Pipelines", "Principals", "Plugins", "PullRequests",
   "Repositories", "Resource", "Secrets", "Spaces", "System", "Templates",
   "Upload", "Users", "Webhooks"}

\* the *http.Client a req client made by req.C() sends its requests through
defaultHTTPClient == "req.C()"

\* a Client struct whose req client is given no token
NewClientStructWithoutToken(addr, token) ==
  [addr |-> addr,
   client |-> [httpClient |-> defaultHTTPClient,
               UserAgent |-> userAgent,
               Timeout |-> 10,
               BearerToken |-> "",
               ContentType |-> "application/json",
               BaseURL |-> <<>>,
               RetryCount |-> 0,
               RetryCondition |-> "default",
               Debug |-> FALSE],
   baseURL |-> defaultBaseURL,
   token |-> token,
   services |-> [s \in Services |-> None]]

\* the Client struct right after NewClient allocated it at address addr: the
\* req client with its defaults, the default base URL, no service yet
NewClientStruct(addr, token) ==
  [addr |-> addr,
   client |-> [httpClient |-> defaultHTTPClient,
               UserAgent |-> userAgent,
               Timeout |-> 10,
               BearerToken |-> token,
               ContentType |-> "application/json",
               BaseURL |-> <<>>,
               RetryCount |-> 0,
               RetryCondition |-> "default",
               Debug |-> FALSE],
   baseURL |-> defaultBaseURL,
   token |-> token,
   services |-> [s \in Services |-> None]]

\* a WithRetry without its retryCount > 0 guard
WithRetryUnguarded(retryCount, c) ==
  [err |-> FALSE, c |-> [c EXCEPT !.client.RetryCount = retryCount]]

\* a WithRetry that enables nothing
WithRetryIgnored(retryCount, c) == [err |-> FALSE, c |-> c]

\* a WithBaseURL that leaves the base URL of the client alone
WithBaseURLIgnored(baseURL, c) == [err |-> FALSE, c |-> c]

\* the body of WithBaseURL after u, err := url.Parse(baseURL): [err, c]
setBaseURL(u, c) ==
  IF ~u.ok THEN [err |-> TRUE, c |-> c]
  ELSE [err |-> FALSE, c |-> [c EXCEPT !.baseURL = urlString(u)]]

\* WithBaseURL(baseURL) applied to c
WithBaseURL(baseURL, c) == setBaseURL(urlParse(baseURL), c)

\* WithHTTPClient(httpClient) applied to c: it changes nothing
WithHTTPClient(httpClient, c) == [err |-> FALSE, c |-> c]

\* WithTimeout(timeout) applied to c
WithTimeout(timeout, c) ==
  [err |-> FALSE, c |-> [c EXCEPT !.client.Timeout = timeout]]

\* WithDebug() applied to c
WithDebug(c) ==
  [err |-> FALSE, c |-> [c EXCEPT !.client.Debug = TRUE]]

\* WithRetry(retryCount) applied to c
WithRetry(retryCount, c) ==
  [err |-> FALSE,
   c |-> IF retryCount > 0 THEN [c EXCEPT !.client.RetryCount = retryCount] ELSE c]

\* one ClientOptionFunc applied to c
ApplyOption(option, c) ==
  CASE option.opt = "WithBaseURL" -> WithBaseURL(option.baseURL, c)
    [] option.opt = "WithHTTPClient" -> WithHTTPClient(option.httpClient, c)
    [] option.opt = "WithTimeout" -> WithTimeout(option.timeout, c)
    [] option.opt = "WithDebug" -> WithDebug(c)
    [] option.opt = "WithRetry" -> WithRetry(option.retryCount, c)

\* the loop of NewClient over its options, stopping at the first error; r is
\* what the options applied so far made
RECURSIVE ApplyOptions(_, _)
ApplyOptions(options, r) ==
  IF options = <<>> \/ r.err THEN r
  ELSE ApplyOptions(Tail(options), ApplyOption(Head(options), r.c))

\* a NewClient that forgets to initialize Templates
InitServicesButOne(c) ==
  [s \in Services |-> IF s = "Templates" THEN None ELSE Some(c.addr)]

\* the services as NewClient initializes them: each one points to c
InitServices(c) == [s \in Services |-> Some(c.addr)]

\* NewClient after the options gave r: an option error is returned with a nil
\* Client, otherwise the API root is set on the req client and the services
\* are initialized
Configured(r) ==
  IF r.err THEN [err |-> TRUE, c |-> None]
  ELSE [err |-> FALSE,
        c |-> Some([r.c EXCEPT !.client.BaseURL = r.c.baseURL \o apiVersionPath,
                               !.services = InitServices(r.c)])]

\* NewClient(token, options...) allocating the Client at addr: [err, c]
NewClientResult(addr, token, options) ==
  Configured(ApplyOptions(options, [err |-> FALSE, c |-> NewClientStruct(addr, token)]))

(***************************************************************************)
(* HTTP responses as the req/v3 client hands them to the library          *)
(***************************************************************************)

\* markers for a JSON field that is missing or is not a string
ABSENT == "<absent>"

NONSTRING == "<non-string>"

\* a response body: nothing, bytes that are not JSON, JSON null, a JSON
\* array, or a JSON object with its "message" and "details" fields
Body(kind, message, details) == [kind |-> kind, message |-> message, details |-> details]

EmptyBody == Body("empty", ABSENT, ABSENT)

GarbageBody == Body("garbage", ABSENT, ABSENT)

NullBody == Body("null", ABSENT, ABSENT)

ArrayBody == Body("array", ABSENT, ABSENT)

\* a JSON object without "message" and "details"
ObjectBody == Body("object", ABSENT, ABSENT)

\* a JSON array with an element of the wrong type for the slice it is
\* decoded into
MismatchBody == Body("mismatch", ABSENT, ABSENT)

\* the zero value of a result destination before the call
ZeroValue == Body("zero", ABSENT, ABSENT)

\* a slice holding the elements of a MismatchBody that fit
PartialValue == Body("partial", ABSENT, ABSENT)

\* the five pagination response headers
PaginationHeaders == {"x-page", "x-per-page", "x-next-page", "x-total", "x-total-pages"}

NoHeader == [present |-> FALSE, val |-> <<>>]

HeaderValue(v) == [present |-> TRUE, val |-> v]

\* http.Header.Get(name): the empty string when the header is absent
HeaderGet(header, name) == IF header[name].present THEN header[name].val ELSE <<>>

\* http.StatusText(code)
StatusText(code) ==
  CASE code = 200 -> "OK"
    [] code = 201 -> "Created"
    [] code = 204 -> "No Content"
    [] code = 304 -> "Not Modified"
    [] code = 400 -> "Bad Request"
    [] code = 404 -> "Not Found"
    [] code = 500 -> "Internal Server Error"
    [] code = 503 -> "Service Unavailable"
    [] OTHER -> ""

\* a round trip cut short because the context of the request is done
Cancelled ==
  [kind |-> "context", status |-> 0,
   header |-> [h \in PaginationHeaders |-> NoHeader], body |-> EmptyBody]

\* a round trip whose context is never looked at
ArrivesIgnoringContext(context, outcome) == outcome

\* what req/v3 gets of a round trip the server would answer with outcome,
\* for a request with SetContext(ctx): nothing once ctx is cancelled or past
\* its deadline
Arrives(context, outcome) == IF context = "done" THEN Cancelled ELSE outcome

\* the *req.Response of one round trip: id tells the round trips apart,
\* received is FALSE when no HTTP response arrived (the embedded
\* *http.Response is nil), Err is the error of the round trip
ReqResponse(id, outcome) ==
  [id |-> id,
   received |-> outcome.kind = "response",
   Err |-> IF outcome.kind = "response" THEN "nil" ELSE outcome.kind,
   StatusCode |-> outcome.status,
   Header |-> outcome.header,
   body |-> outcome.body]

\* (*req.Response).IsSuccessState(): a response with status 200..299
IsSuccessState(r) == r.received /\ r.StatusCode > 199 /\ r.StatusCode < 300

\* json.Unmarshal(body, dest) succeeds: an object into a struct, an array
\* into a slice, null into either
Decodes(body, destKind) ==
  \/ body.kind = "null"
  \/ body.kind = "object" /\ destKind = "struct"
  \/ body.kind = "array" /\ destKind = "slice"

\* req/v3 decodes the body of a successful response into the destination
\* given to SetSuccessResult, except for 204 No Content
DecodeAttempted(request, r) ==
  IsSuccessState(r) /\ request.result # None /\ r.StatusCode # 204

\* the error req/v3 returns for one round trip: the transport error, or the
\* error of decoding the success body
RoundTripError(request, r) ==
  IF ~r.received THEN r.Err
  ELSE IF DecodeAttempted(request, r) /\ ~Decodes(r.body, request.result[1]) THEN "decode"
  ELSE "nil"

\* json.Unmarshal(body, dest) fails with an UnmarshalTypeError after it wrote
\* the values that fit: an array with an ill-typed element into a slice
DecodesPartly(body, destKind) == body.kind = "mismatch" /\ destKind = "slice"

\* a round trip that decodes the body of every response it receives
DestAfterAnyStatus(request, r, dest) ==
  IF r.received /\ request.result # None /\ r.StatusCode # 204
     /\ Decodes(r.body, request.result[1]) /\ r.body.kind # "null"
  THEN r.body
  ELSE IF r.received /\ request.result # None /\ r.StatusCode # 204
          /\ DecodesPartly(r.body, request.result[1])
  THEN PartialValue
  ELSE dest

\* the result destination after the round trip
DestAfter(request, r, dest) ==
  IF DecodeAttempted(request, r) /\ Decodes(r.body, request.result[1]) /\ r.body.kind # "null"
  THEN r.body
  ELSE IF DecodeAttempted(request, r) /\ DecodesPartly(r.body, request.result[1])
  THEN PartialValue
  ELSE dest

(***************************************************************************)
(* Errors and the Response wrapper                                         *)
(***************************************************************************)

\* an error value: kind "nil" is the nil error, "ErrorResponse" is an
\* *ErrorResponse with its three fields, the others are errors of req/v3
Error(kind, response, message, details) ==
  [kind |-> kind, Response |-> response, Message |-> message, Details |-> details]

NoError == Error("nil", None, "", "")

LibraryError(kind) == Error(kind, None, "", "")

\* an error response that keeps the Message of the body, empty or not
errorResponseWithoutFallback(r) ==
  LET parsed == r.body.kind \in {"object", "null"}
      message == IF parsed /\ r.body.message \notin {ABSENT, NONSTRING}
                 THEN r.body.message ELSE ""
      details == IF parsed /\ r.body.details \notin {ABSENT, NONSTRING}
                 THEN r.body.details ELSE ""
  IN  Error("ErrorResponse", Some(r), message, details)

\* an error response that leaves Details empty whatever the body holds
errorResponseWithoutDetails(r) ==
  LET parsed == r.body.kind \in {"object", "null"}
      message == IF parsed /\ r.body.message \notin {ABSENT, NONSTRING}
                 THEN r.body.message ELSE ""
  IN  Error("ErrorResponse", Some(r),
            IF message = ""
            THEN "HTTP " \o ToString(r.StatusCode) \o ": " \o StatusText(r.StatusCode)
            ELSE message,
            "")

\* the *ErrorResponse of checkResponse: the body is unmarshalled into it (a
\* field that is missing or no string stays empty), and an empty Message
\* becomes "HTTP <code>: <status text>"
errorResponse(r) ==
  LET parsed == r.body.kind \in {"object", "null"}
      message == IF parsed /\ r.body.message \notin {ABSENT, NONSTRING}
                 THEN r.body.message ELSE ""
      details == IF parsed /\ r.body.details \notin {ABSENT, NONSTRING}
                 THEN r.body.details ELSE ""
  IN  Error("ErrorResponse", Some(r),
            IF message = ""
            THEN "HTTP " \o ToString(r.StatusCode) \o ": " \o StatusText(r.StatusCode)
            ELSE message,
            details)

\* a checkResponse that takes every status below 400 for a success
checkResponseBelow400(r) ==
  IF r.received /\ r.StatusCode < 400 THEN NoError ELSE errorResponse(r)

\* Client.checkResponse(r)
checkResponse(r) == IF IsSuccessState(r) THEN NoError ELSE errorResponse(r)

\* strconv.Atoi(s) for the values a header can hold: an optional sign and
\* at least one decimal digit; [ok, v]
DigitValue(c) ==
  CASE c = "0" -> 0 [] c = "1" -> 1 [] c = "2" -> 2 [] c = "3" -> 3 [] c = "4" -> 4
    [] c = "5" -> 5 [] c = "6" -> 6 [] c = "7" -> 7 [] c = "8" -> 8 [] c = "9" -> 9

RECURSIVE DigitsValue(_, _)
DigitsValue(s, acc) ==
  IF s = <<>> THEN acc ELSE DigitsValue(Tail(s), acc * 10 + DigitValue(Head(s)))

Atoi(s) ==
  LET signed == s # <<>> /\ Head(s) \in {"+", "-"}
      d == IF signed THEN Tail(s) ELSE s
      ok == d # <<>> /\ \A i \in 1..Len(d) : d[i] \in Digits
  IN  [ok |-> ok,
       v |-> IF ~ok THEN 0
             ELSE IF signed /\ Head(s) = "-" THEN 0 - DigitsValue(d, 0)
             ELSE DigitsValue(d, 0)]

\* &Response{Response: resp}: the wrapper with no pagination field set
Response(r) ==
  [Response |-> r, Page |-> None, PerPage |-> None, NextPage |-> None,
   Total |-> None, TotalPages |-> None]

\* a block of parsePaginationHeaders that reads x-page whatever its field
PaginationFieldFromXPage(header, name, old) ==
  IF HeaderGet(header, "x-page") # <<>> /\ Atoi(HeaderGet(header, "x-page")).ok
  THEN Some(Atoi(HeaderGet(header, "x-page")).v)
  ELSE old

\* a block of parsePaginationHeaders that sets its field whatever
\* strconv.Atoi says, to the 0 Atoi returns with an error
PaginationFieldUnchecked(header, name, old) ==
  IF HeaderGet(header, name) # <<>>
  THEN Some(Atoi(HeaderGet(header, name)).v)
  ELSE old

\* one block of parsePaginationHeaders: the field for header name is set
\* when the header is not empty and strconv.Atoi accepts it, otherwise it
\* keeps the value old it had
PaginationField(header, name, old) ==
  IF HeaderGet(header, name) # <<>> /\ Atoi(HeaderGet(header, name)).ok
  THEN Some(Atoi(HeaderGet(header, name)).v)
  ELSE old

\* Client.parsePaginationHeaders(response); response.Response.Response is nil
\* when no HTTP response was received
parsePaginationHeaders(response) ==
  IF ~response.Response.received THEN response
  ELSE [response EXCEPT
          !.Page = PaginationField(response.Response.Header, "x-page", @),
          !.PerPage = PaginationField(response.Response.Header, "x-per-page", @),
          !.NextPage = PaginationField(response.Response.Header, "x-next-page", @),
          !.Total = PaginationField(response.Response.Header, "x-total", @),
          !.TotalPages = PaginationField(response.Response.Header, "x-total-pages", @)]

(***************************************************************************)
(* Service operations                                                      *)
(*                                                                         *)
(* Each operation is described by what its code does: the helper it goes   *)
(* through (via; "direct" builds the request on client.client.R()), the    *)
(* HTTP method, the fmt.Sprintf format of its path, the result destination *)
(* it passes (a struct or a slice), the body argument it passes ("nil" is  *)
(* the literal nil), what it returns besides the response and the error,   *)
(* for a direct operation whether it calls checkResponse and               *)
(* parsePaginationHeaders, and what it does with its options pointer.      *)
(***************************************************************************)

\* a literal piece of a format string
Lit(s) == [kind |-> "lit", s |-> s, i |-> 0]

\* %s filled with argument i as given
ArgS(i) == [kind |-> "%s", s |-> <<>>, i |-> i]

\* %s filled with url.PathEscape(argument i)
ArgEsc(i) == [kind |-> "escaped", s |-> <<>>, i |-> i]

\* %d filled with the integer argument i
ArgD(i) == [kind |-> "%d", s |-> <<>>, i |-> i]

\* the decimal digits of n >= 0 (fmt's %d)
RECURSIVE Itoa(_)
Itoa(n) ==
  LET d == <<"0","1","2","3","4","5","6","7","8","9">>[(n % 10) + 1]
  IN  IF n < 10 THEN <<d>> ELSE Itoa(n \div 10) \o <<d>>

\* fmt.Sprintf(format, args...)
RECURSIVE Sprintf(_, _)
Sprintf(format, args) ==
  IF format = <<>> THEN <<>>
  ELSE LET p == Head(format)
       IN  (CASE p.kind = "lit" -> p.s
              [] p.kind = "%s" -> args[p.i]
              [] p.kind = "escaped" -> PathEscape(args[p.i])
              [] p.kind = "%d" -> Itoa(args[p.i]))
           \o Sprintf(Tail(format), args)

\* a field of an options struct: its Go selector, the name in its url tag
\* and the kind of the value it points to
Field(name, tag, kind) == [name |-> name, tag |-> tag, kind |-> kind]

\* type ListOptions struct: Page, Limit *int; Sort, Order, Query *string
ListOptionsFields ==
  <<Field("Page", "page", "int"),
    Field("Limit", "limit", "int"),
    Field("Sort", "sort", "string"),
    Field("Order", "order", "string"),
    Field("Query", "query", "string")>>

\* the fields of a ListOptions embedded in another options struct
EmbeddedListOptions ==
  [i \in 1..Len(ListOptionsFields) |->
     [ListOptionsFields[i] EXCEPT !.name = "ListOptions." \o @]]

\* if opt.<field> != nil { req.SetQueryParam(param, <format of *opt.field>) }
QueryParam(param, field, format) == [param |-> param, field |-> field, format |-> format]

\* how an operation treats its options pointer: the type of the struct,
\* whether the code reads it only inside "if opt != nil", the fields with a
\* url tag, the call of buildQueryParams ("whole": performListRequest hands
\* it opt itself, "embedded": the operation hands it &opt.ListOptions,
\* "none"), and the query parameters the operation sets itself, in the order
\* of the code
Options(type, guarded, fields, common, sets) ==
  [type |-> type, guarded |-> guarded, fields |-> fields, common |-> common,
   sets |-> sets]

\* an operation without options struct
NoOptions == Options("", TRUE, <<>>, "none", <<>>)

\* the operations of AuthService in auth.go
AuthService ==
  {
   \* Login
   [name |-> "Auth.Login", via |-> "Post", method |-> "POST",
    format |-> <<Lit(<<"l","o","g","i","n">>)>>,
    result |-> Some("struct"), body |-> "value", data |-> "result",
    checks |-> FALSE, paginates |-> FALSE,
    options |-> NoOptions],
   \* Logout
   [name |-> "Auth.Logout", via |-> "Post", method |-> "POST",
    format |-> <<Lit(<<"l","o","g","o","u","t">>)>>,
    result |-> None, body |-> "nil", data |-> "none",
    checks |-> FALSE, paginates |-> FALSE,
    options |-> NoOptions],
   \* Register
   [name |-> "Auth.Register", via |-> "Post", method |-> "POST",
    format |-> <<Lit(<<"r","e","g","i","s","t","e","r">>)>>,
    result |-> Some("struct"), body |-> "value", data |-> "result",
    checks |-> FALSE, paginates |-> FALSE,
    options |-> NoOptions]
  }

\* the operations of CiCacheService in cicache.go
CiCacheService ==
  {
   \* UploadCiCache
   [name |-> "CiCache.UploadCiCache", via |-> "direct", method |-> "PUT",
    format |-> <<Lit(<<"c","i","/","c","a","c","h","e","/">>),
                 ArgS(1)>>,
    result |-> Some("struct"), body |-> "reader", data |-> "result",
    checks |-> TRUE, paginates |-> FALSE,
    options |-> NoOptions],
   \* GetCiCache
   [name |-> "CiCache.GetCiCache", via |-> "direct", method |-> "GET",
    format |-> <<Lit(<<"c","i","/","c","a","c","h","e","/">>),
                 ArgS(1)>>,
    result |-> None, body |-> "none", data |-> "body",
    checks |-> TRUE, paginates |-> FALSE,
    options |-> Options("GetCiCacheOptions", TRUE,
                  <<Field("Version", "version", "int")>>,
                  "none",
                  <<QueryParam("version", "Version", "%d")>>)],
   \* ListCiCache
   [name |-> "CiCache.ListCiCache", via |-> "direct", method |-> "GET",
    format |-> <<Lit(<<"c","i","/","c","a","c","h","e">>)>>,
    result |-> Some("slice"), body |-> "none", data |-> "result",
    checks |-> TRUE, paginates |-> TRUE,
    options |-> Options("ListCiCacheOptions", TRUE,
                  EmbeddedListOptions \o
                  <<Field("KeyPrefix", "key_prefix", "string")>>,
                  "embedded",
                  <<QueryParam("key_prefix", "KeyPrefix", "%s")>>)],
   \* DeleteCiCache
   [name |-> "CiCache.DeleteCiCache", via |-> "Delete", method |-> "DELETE",
    format |-> <<Lit(<<"c","i","/","c","a","c","h","e","/">>),
                 ArgS(1)>>,
    result |-> None, body |-> "nil", data |-> "none",
    checks |-> FALSE, paginates |-> FALSE,
    options |-> NoOptions],
   \* ClearCiCache
   [name |-> "CiCache.ClearCiCache", via |-> "Delete", method |-> "DELETE",
    format |-> <<Lit(<<"c","i","/","c","a","c","h","e">>)>>,
    result |-> None, body |-> "nil", data |-> "none",
    checks |-> FALSE, paginates |-> FALSE,
    options |-> NoOptions]
  }

\* the operations of ConnectorsService in connectors.go
ConnectorsService ==
  {
   \* ListConnectors
   [name |-> "Connectors.ListConnectors", via |-> "performListRequest", method |-> "GET",
    format |-> <<Lit(<<"c","o","n","n","e","c","t","o","r","s">>)>>,
    result |-> Some("slice"), body |-> "none", data |-> "result",
    checks |-> FALSE, paginates |-> FALSE,
    options |-> Options("ListOptions", FALSE,
                  ListOptionsFields,
                  "whole",
                  <<>>)],
   \* GetConnector
   [name |-> "Connectors.GetConnector", via |-> "Get", method |-> "GET",
    format |-> <<Lit(<<"c","o","n","n","e","c","t","o","r","s","/">>),
                 ArgS(1)>>,
    result |-> Some("struct"), body |-> "none", data |-> "result",
    checks |-> FALSE, paginates |-> FALSE,
    options |-> NoOptions],
   \* CreateConnector
   [name |-> "Connectors.CreateConnector", via |-> "Post", method |-> "POST",
    format |-> <<Lit(<<"c","o","n","n","e","c","t","o","r","s">>)>>,
    result |-> Some("struct"), body |-> "value", data |-> "result",
    checks |-> FALSE, paginates |-> FALSE,
    options |-> NoOptions],
   \* UpdateConnector
   [name |-> "Connectors.UpdateConnector", via |-> "Patch", method |-> "PATCH",
    format |-> <<Lit(<<"c","o","n","n","e","c","t","o","r","s","/">>),
                 ArgS(1)>>,
    result |-> Some("struct"), body |-> "value", data |-> "result",
    checks |-> FALSE, paginates |-> FALSE,
    options |-> NoOptions],
   \* DeleteConnector
   [name |-> "Connectors.DeleteConnector", via |-> "Delete", method |-> "DELETE",
    format |-> <<Lit(<<"c","o","n","n","e","c","t","o","r","s","/">>),
                 ArgS(1)>>,
    result |-> None, body |-> "nil", data |-> "none",
    checks |-> FALSE, paginates |-> FALSE,
    options |-> NoOptions]
  }

\* the operations of PipelinesService in pipelines.go
PipelinesService ==
  {
   \* ListPipelines
   [name |-> "Pipelines.ListPipelines", via |-> "performListRequest", method |-> "GET",
    format |-> <<Lit(<<"r","e","p","o","s","/">>),
                 ArgS(1),
                 Lit(<<"/","p","i","p","e","l","i","n","e","s">>)>>,
    result |-> Some("slice"), body |-> "none", data |-> "result",
    checks |-> FALSE, paginates |-> FALSE,
    options |-> Options("ListOptions", FALSE,
                  ListOptionsFields,
                  "whole",
                  <<>>)],
   \* GetPipeline
   [name |-> "Pipelines.GetPipeline", via |-> "Get", method |-> "GET",
    format |-> <<Lit(<<"r","e","p","o","s","/">>),
                 ArgS(1),
                 Lit(<<"/","p","i","p","e","l","i","n","e","s","/">>),
                 ArgD(2)>>,
    result |-> Some("struct"), body |-> "none", data |-> "result",
    checks |-> FALSE, paginates |-> FALSE,
    options |-> NoOptions],
   \* ListPipelineExecutions
   [name |-> "Pipelines.ListPipelineExecutions", via |-> "direct", method |-> "GET",
    format |-> <<Lit(<<"r","e","p","o","s","/">>),
                 ArgS(1),
                 Lit(<<"/","p","i","p","e","l","i","n","e","s","/">>),
                 ArgS(2),
                 Lit(<<"/","e","x","e","c","u","t","i","o","n","s">>)>>,
    result |-> Some("slice"), body |-> "none", data |-> "result",
    checks |-> TRUE, paginates |-> TRUE,
    options |-> Options("ListPipelineExecutionsOptions", TRUE,
                  EmbeddedListOptions \o
                  <<Field("Status", "status", "string")>>,
                  "embedded",
                  <<QueryParam("status", "Status", "%s")>>)],
   \* GetPipelineExecution
   [name |-> "Pipelines.GetPipelineExecution", via |-> "Get", method |-> "GET",
    format |-> <<Lit(<<"r","e","p","o","s","/">>),
                 ArgS(1),
                 Lit(<<"/","p","i","p","e","l","i","n","e","s","/">>),
                 ArgS(2),
                 Lit(<<"/","e","x","e","c","u","t","i","o","n","s","/">>),
                 ArgD(3)>>,
    result |-> Some("struct"), body |-> "none", data |-> "result",
    checks |-> FALSE, paginates |-> FALSE,
    options |-> NoOptions],
   \* CancelPipelineExecution
   [name |-> "Pipelines.CancelPipelineExecution", via |-> "Post", method |-> "POST",
    format |-> <<Lit(<<"r","e","p","o","s","/">>),
                 ArgS(1),
                 Lit(<<"/","p","i","p","e","l","i","n","e","s","/">>),
                 ArgS(2),
                 Lit(<<"/","e","x","e","c","u","t","i","o","n","s","/">>),
                 ArgD(3),
                 Lit(<<"/","c","a","n","c","e","l">>)>>,
    result |-> None, body |-> "nil", data |-> "none",
    checks |-> FALSE, paginates |-> FALSE,
    options |-> NoOptions],
   \* RetryPipelineExecution
   [name |-> "Pipelines.RetryPipelineExecution", via |-> "Post", method |-> "POST",
    format |-> <<Lit(<<"r","e","p","o","s","/">>),
                 ArgS(1),
                 Lit(<<"/","p","i","p","e","l","i","n","e","s","/">>),
                 ArgS(2),
                 Lit(<<"/","e","x","e","c","u","t","i","o","n","s","/">>),
                 ArgD(3),
                 Lit(<<"/","r","e","t","r","y">>)>>,
    result |-> Some("struct"), body |-> "nil", data |-> "result",
    checks |-> FALSE, paginates |-> FALSE,
    options |-> NoOptions],
   \* ListPipelineTriggers
   [name |-> "Pipelines.ListPipelineTriggers", via |-> "performListRequest", method |-> "GET",
    format |-> <<Lit(<<"r","e","p","o","s","/">>),
                 ArgS(1),
                 Lit(<<"/","p","i","p","e","l","i","n","e","s","/">>),
                 ArgS(2),
                 Lit(<<"/","t","r","i","g","g","e","r","s">>)>>,
    result |-> Some("slice"), body |-> "none", data |-> "result",
    checks |-> FALSE, paginates |-> FALSE,
    options |-> Options("ListOptions", FALSE,
                  ListOptionsFields,
                  "whole",
                  <<>>)],
   \* CreatePipelineTrigger
   [name |-> "Pipelines.CreatePipelineTrigger", via |-> "Post", method |-> "POST",
    format |-> <<Lit(<<"r","e","p","o","s","/">>),
                 ArgS(1),
                 Lit(<<"/","p","i","p","e","l","i","n","e","s","/">>),
                 ArgS(2),
                 Lit(<<"/","t","r","i","g","g","e","r","s">>)>>,
    result |-> Some("struct"), body |-> "value", data |-> "result",
    checks |-> FALSE, paginates |-> FALSE,
    options |-> NoOptions],
   \* GetPipelineTrigger
   [name |-> "Pipelines.GetPipelineTrigger", via |-> "Get", method |-> "GET",
    format |-> <<Lit(<<"r","e","p","o","s","/">>),
                 ArgS(1),
                 Lit(<<"/","p","i","p","e","l","i","n","e","s","/">>),
                 ArgS(2),
                 Lit(<<"/","t","r","i","g","g","e","r","s","/">>),
                 ArgS(3)>>,
    result |-> Some("struct"), body |-> "none", data |-> "result",
    checks |-> FALSE, paginates |-> FALSE,
    options |-> NoOptions],
   \* UpdatePipelineTrigger
   [name |-> "Pipelines.UpdatePipelineTrigger", via |-> "Patch", method |-> "PATCH",
    format |-> <<Lit(<<"r","e","p","o","s","/">>),
                 ArgS(1),
                 Lit(<<"/","p","i","p","e","l","i","n","e","s","/">>),
                 ArgS(2),
                 Lit(<<"/","t","r","i","g","g","e","r","s","/">>),
                 ArgS(3)>>,
    result |-> Some("struct"), body |-> "value", data |-> "result",
    checks |-> FALSE, paginates |-> FALSE,
    options |-> NoOptions],
   \* DeletePipelineTrigger
   [name |-> "Pipelines.DeletePipelineTrigger", via |-> "Delete", method |-> "DELETE",
    format |-> <<Lit(<<"r","e","p","o","s","/">>),
                 ArgS(1),
                 Lit(<<"/","p","i","p","e","l","i","n","e","s","/">>),
                 ArgS(2),
                 Lit(<<"/","t","r","i","g","g","e","r","s","/">>),
                 ArgS(3)>>,
    result |-> None, body |-> "nil", data |-> "none",
    checks |-> FALSE, paginates |-> FALSE,
    options |-> NoOptions]
  }

\* the operations of PrincipalsService in principals.go
PrincipalsService ==
  {
   \* ListPrincipals
   [name |-> "Principals.ListPrincipals", via |-> "direct", method |-> "GET",
    format |-> <<Lit(<<"p","r","i","n","c","i","p","a","l","s">>)>>,
    result |-> Some("slice"), body |-> "none", data |-> "result",
    checks |-> TRUE, paginates |-> TRUE,
    options |-> Options("ListPrincipalsOptions", TRUE,
                  EmbeddedListOptions \o
                  <<Field("Type", "type", "string")>>,
                  "embedded",
                  <<QueryParam("type", "Type", "%s")>>)],
   \* GetPrincipal
   [name |-> "Principals.GetPrincipal", via |-> "Get", method |-> "GET",
    format |-> <<Lit(<<"p","r","i","n","c","i","p","a","l","s","/">>),
                 ArgD(1)>>,
    result |-> Some("struct"), body |-> "none", data |-> "result",
    checks |-> FALSE, paginates |-> FALSE,
    options |-> NoOptions]
  }

\* the operations of RepositoriesService in repositories.go
RepositoriesService ==
  {
   \* ImportRepository
   [name |-> "Repositories.ImportRepository", via |-> "Post", method |-> "POST",
    format |-> <<Lit(<<"s","p","a","c","e","s","/">>),
                 ArgS(1),
                 Lit(<<"/","r","e","p","o","s","/","i","m","p","o","r","t">>)>>,
    result |-> Some("struct"), body |-> "value", data |-> "result",
    checks |-> FALSE, paginates |-> FALSE,
    options |-> NoOptions],
   \* GetRepository
   [name |-> "Repositories.GetRepository", via |-> "Get", method |-> "GET",
    format |-> <<Lit(<<"r","e","p","o","s","/">>),
                 ArgS(1)>>,
    result |-> Some("struct"), body |-> "none", data |-> "result",
    checks |-> FALSE, paginates |-> FALSE,
    options |-> NoOptions],
   \* CreateRepository
   [name |-> "Repositories.CreateRepository", via |-> "Post", method |-> "POST",
    format |-> <<Lit(<<"s","p","a","c","e","s","/">>),
                 ArgS(1),
                 Lit(<<"/","r","e","p","o","s">>)>>,
    result |-> Some("struct"), body |-> "value", data |-> "result",
    checks |-> FALSE, paginates |-> FALSE,
    options |-> NoOptions],
   \* UpdateRepository
   [name |-> "Repositories.UpdateRepository", via |-> "Patch", method |-> "PATCH",
    format |-> <<Lit(<<"r","e","p","o","s","/">>),
                 ArgS(1)>>,
    result |-> Some("struct"), body |-> "value", data |-> "result",
    checks |-> FALSE, paginates |-> FALSE,
    options |-> NoOptions],
   \* DeleteRepository
   [name |-> "Repositories.DeleteRepository", via |-> "Delete", method |-> "DELETE",
    format |-> <<Lit(<<"r","e","p","o","s","/">>),
                 ArgS(1)>>,
    result |-> None, body |-> "value", data |-> "none",
    checks |-> FALSE, paginates |-> FALSE,
    options |-> NoOptions],
   \* ListBranches
   [name |-> "Repositories.ListBranches", via |-> "performListRequest", method |-> "GET",
    format |-> <<Lit(<<"r","e","p","o","s","/">>),
                 ArgS(1),
                 Lit(<<"/","b","r","a","n","c","h","e","s">>)>>,
    result |-> Some("slice"), body |-> "none", data |-> "result",
    checks |-> FALSE, paginates |-> FALSE,
    options |-> Options("ListOptions", FALSE,
                  ListOptionsFields,
                  "whole",
                  <<>>)],
   \* GetBranch
   [name |-> "Repositories.GetBranch", via |-> "Get", method |-> "GET",
    format |-> <<Lit(<<"r","e","p","o","s","/">>),
                 ArgS(1),
                 Lit(<<"/","b","r","a","n","c","h","e","s","/">>),
                 ArgS(2)>>,
    result |-> Some("struct"), body |-> "none", data |-> "result",
    checks |-> FALSE, paginates |-> FALSE,
    options |-> NoOptions],
   \* CreateBranch
   [name |-> "Repositories.CreateBranch", via |-> "Post", method |-> "POST",
    format |-> <<Lit(<<"r","e","p","o","s","/">>),
                 ArgS(1),
                 Lit(<<"/","b","r","a","n","c","h","e","s">>)>>,
    result |-> Some("struct"), body |-> "value", data |-> "result",
    checks |-> FALSE, paginates |-> FALSE,
    options |-> NoOptions],
   \* DeleteBranch
   [name |-> "Repositories.DeleteBranch", via |-> "Delete", method |-> "DELETE",
    format |-> <<Lit(<<"r","e","p","o","s","/">>),
                 ArgS(1),
                 Lit(<<"/","b","r","a","n","c","h","e","s","/">>),
                 ArgS(2)>>,
    result |-> None, body |-> "nil", data |-> "none",
    checks |-> FALSE, paginates |-> FALSE,
    options |-> NoOptions],
   \* ListCommits
   [name |-> "Repositories.ListCommits", via |-> "direct", method |-> "GET",
    format |-> <<Lit(<<"r","e","p","o","s","/">>),
                 ArgS(1),
                 Lit(<<"/","c","o","m","m","i","t","s">>)>>,
    result |-> Some("slice"), body |-> "none", data |-> "result",
    checks |-> TRUE, paginates |-> TRUE,
    options |-> Options("ListCommitsOptions", TRUE,
                  EmbeddedListOptions \o
                  <<Field("GitRef", "git_ref", "string"),
                    Field("After", "after", "string"),
                    Field("Since", "since", "time"),
                    Field("Until", "until", "time"),
                    Field("Path", "path", "string")>>,
                  "embedded",
                  <<QueryParam("git_ref", "GitRef", "%s"),
                    QueryParam("after", "After", "%s"),
                    QueryParam("since", "Since", "String()"),
                    QueryParam("until", "Until", "String()"),
                    QueryParam("path", "Path", "%s")>>)],
   \* GetCommit
   [name |-> "Repositories.GetCommit", via |-> "Get", method |-> "GET",
    format |-> <<Lit(<<"r","e","p","o","s","/">>),
                 ArgS(1),
                 Lit(<<"/","c","o","m","m","i","t","s","/">>),
                 ArgS(2)>>,
    result |-> Some("struct"), body |-> "none", data |-> "result",
    checks |-> FALSE, paginates |-> FALSE,
    options |-> NoOptions],
   \* GetFileContent
   [name |-> "Repositories.GetFileContent", via |-> "Get", method |-> "GET",
    format |-> <<Lit(<<"r","e","p","o","s","/">>),
                 ArgS(1),
                 Lit(<<"/","c","o","n","t","e","n","t","/">>),
                 ArgS(2)>>,
    result |-> Some("struct"), body |-> "none", data |-> "result",
    checks |-> FALSE, paginates |-> FALSE,
    options |-> Options("GetFileOptions", FALSE,
                  <<Field("Ref", "git_ref", "string"),
                    Field("IncludeCommit", "include_commit", "bool")>>,
                  "none",
                  <<>>)],
   \* ListPaths
   [name |-> "Repositories.ListPaths", via |-> "direct", method |-> "GET",
    format |-> <<Lit(<<"r","e","p","o","s","/">>),
                 ArgS(1),
                 Lit(<<"/","p","a","t","h","s">>)>>,
    result |-> Some("slice"), body |-> "none", data |-> "result",
    checks |-> TRUE, paginates |-> TRUE,
    options |-> Options("ListPathsOptions", FALSE,
                  <<Field("GitRef", "git_ref", "string"),
                    Field("Path", "path", "string"),
                    Field("IncludeCommit", "include_commit", "bool")>>,
                  "none",
                  <<QueryParam("git_ref", "GitRef", "%s"),
                    QueryParam("path", "Path", "%s"),
                    QueryParam("include_commit", "IncludeCommit", "%t")>>)]
  }

\* the operations of PullRequestsService in pullrequests.go
PullRequestsService ==
  {
   \* CreatePullRequest
   [name |-> "PullRequests.CreatePullRequest", via |-> "Post", method |-> "POST",
    format |-> <<Lit(<<"r","e","p","o","s","/">>),
                 ArgS(1),
                 Lit(<<"/","p","u","l","l","r","e","q">>)>>,
    result |-> Some("struct"), body |-> "value", data |-> "result",
    checks |-> FALSE, paginates |-> FALSE,
    options |-> NoOptions],
   \* ListPullRequests
   [name |-> "PullRequests.ListPullRequests", via |-> "direct", method |-> "GET",
    format |-> <<Lit(<<"r","e","p","o","s","/">>),
                 ArgS(1),
                 Lit(<<"/","p","u","l","l","r","e","q">>)>>,
    result |-> Some("slice"), body |-> "none", data |-> "result",
    checks |-> TRUE, paginates |-> TRUE,
    options |-> Options("ListPullRequestsOptions", TRUE,
                  EmbeddedListOptions \o
                  <<Field("State", "state", "string"),
                    Field("SourceBranch", "source_branch", "string"),
                    Field("TargetBranch", "target_branch", "string"),
                    Field("CreatedBy", "created_by", "int")>>,
                  "embedded",
                  <<QueryParam("state", "State", "%s"),
                    QueryParam("source_branch", "SourceBranch", "%s"),
                    QueryParam("target_branch", "TargetBranch", "%s"),
                    QueryParam("created_by", "CreatedBy", "%d")>>)],
   \* GetPullRequest
   [name |-> "PullRequests.GetPullRequest", via |-> "Get", method |-> "GET",
    format |-> <<Lit(<<"r","e","p","o","s","/">>),
                 ArgS(1),
                 Lit(<<"/","p","u","l","l","r","e","q","/">>),
                 ArgD(2)>>,
    result |-> Some("struct"), body |-> "none", data |-> "result",
    checks |-> FALSE, paginates |-> FALSE,
    options |-> NoOptions],
   \* UpdatePullRequest
   [name |-> "PullRequests.UpdatePullRequest", via |-> "Patch", method |-> "PATCH",
    format |-> <<Lit(<<"r","e","p","o","s","/">>),
                 ArgS(1),
                 Lit(<<"/","p","u","l","l","r","e","q","/">>),
                 ArgD(2)>>,
    result |-> Some("struct"), body |-> "value", data |-> "result",
    checks |-> FALSE, paginates |-> FALSE,
    options |-> NoOptions],
   \* SetPullRequestState
   [name |-> "PullRequests.SetPullRequestState", via |-> "Post", method |-> "POST",
    format |-> <<Lit(<<"r","e","p","o","s","/">>),
                 ArgS(1),
                 Lit(<<"/","p","u","l","l","r","e","q","/">>),
                 ArgD(2),
                 Lit(<<"/","s","t","a","t","e">>)>>,
    result |-> Some("struct"), body |-> "value", data |-> "result",
    checks |-> FALSE, paginates |-> FALSE,
    options |-> NoOptions],
   \* MergePullRequest
   [name |-> "PullRequests.MergePullRequest", via |-> "Post", method |-> "POST",
    format |-> <<Lit(<<"r","e","p","o","s","/">>),
                 ArgS(1),
                 Lit(<<"/","p","u","l","l","r","e","q","/">>),
                 ArgD(2),
                 Lit(<<"/","m","e","r","g","e">>)>>,
    result |-> Some("struct"), body |-> "value", data |-> "result",
    checks |-> FALSE, paginates |-> FALSE,
    options |-> NoOptions],
   \* ListPullRequestActivity
   [name |-> "PullRequests.ListPullRequestActivity", via |-> "performListRequest", method |-> "GET",
    format |-> <<Lit(<<"r","e","p","o","s","/">>),
                 ArgS(1),
                 Lit(<<"/","p","u","l","l","r","e","q","/">>),
                 ArgD(2),
                 Lit(<<"/","a","c","t","i","v","i","t","i","e","s">>)>>,
    result |-> Some("slice"), body |-> "none", data |-> "result",
    checks |-> FALSE, paginates |-> FALSE,
    options |-> Options("ListOptions", FALSE,
                  ListOptionsFields,
                  "whole",
                  <<>>)],
   \* CreatePullRequestComment
   [name |-> "PullRequests.CreatePullRequestComment", via |-> "Post", method |-> "POST",
    format |-> <<Lit(<<"r","e","p","o","s","/">>),
                 ArgS(1),
                 Lit(<<"/","p","u","l","l","r","e","q","/">>),
                 ArgD(2),
                 Lit(<<"/","c","o","m","m","e","n","t","s">>)>>,
    result |-> Some("struct"), body |-> "value", data |-> "result",
    checks |-> FALSE, paginates |-> FALSE,
    options |-> NoOptions],
   \* AddPullRequestReviewer
   [name |-> "PullRequests.AddPullRequestReviewer", via |-> "Put", method |-> "PUT",
    format |-> <<Lit(<<"r","e","p","o","s","/">>),
                 ArgS(1),
                 Lit(<<"/","p","u","l","l","r","e","q","/">>),
                 ArgD(2),
                 Lit(<<"/","r","e","v","i","e","w","e","r","s","/">>),
                 ArgS(3)>>,
    result |-> None, body |-> "nil", data |-> "none",
    checks |-> FALSE, paginates |-> FALSE,
    options |-> NoOptions],
   \* RemovePullRequestReviewer
   [name |-> "PullRequests.RemovePullRequestReviewer", via |-> "Delete", method |-> "DELETE",
    format |-> <<Lit(<<"r","e","p","o","s","/">>),
                 ArgS(1),
                 Lit(<<"/","p","u","l","l","r","e","q","/">>),
                 ArgD(2),
                 Lit(<<"/","r","e","v","i","e","w","e","r","s","/">>),
                 ArgS(3)>>,
    result |-> None, body |-> "nil", data |-> "none",
    checks |-> FALSE, paginates |-> FALSE,
    options |-> NoOptions],
   \* ListPullRequestReviewers
   [name |-> "PullRequests.ListPullRequestReviewers", via |-> "Get", method |-> "GET",
    format |-> <<Lit(<<"r","e","p","o","s","/">>),
                 ArgS(1),
                 Lit(<<"/","p","u","l","l","r","e","q","/">>),
                 ArgD(2),
                 Lit(<<"/","r","e","v","i","e","w","e","r","s">>)>>,
    result |-> Some("slice"), body |-> "none", data |-> "result",
    checks |-> FALSE, paginates |-> FALSE,
    options |-> NoOptions],
   \* ListPullRequestCombinedReviewers
   [name |-> "PullRequests.ListPullRequestCombinedReviewers", via |-> "Get", method |-> "GET",
    format |-> <<Lit(<<"r","e","p","o","s","/">>),
                 ArgS(1),
                 Lit(<<"/","p","u","l","l","r","e","q","/">>),
                 ArgD(2),
                 Lit(<<"/","r","e","v","i","e","w","e","r","s","/","c","o","m","b","i","n","e","d">>)>>,
    result |-> Some("struct"), body |-> "none", data |-> "result",
    checks |-> FALSE, paginates |-> FALSE,
    options |-> NoOptions],
   \* AddPullRequestUserGroupReviewer
   [name |-> "PullRequests.AddPullRequestUserGroupReviewer", via |-> "Put", method |-> "PUT",
    format |-> <<Lit(<<"r","e","p","o","s","/">>),
                 ArgS(1),
                 Lit(<<"/","p","u","l","l","r","e","q","/">>),
                 ArgD(2),
                 Lit(<<"/","r","e","v","i","e","w","e","r","s","/","u","s","e","r","g","r","o","u","p","s">>)>>,
    result |-> Some("struct"), body |-> "value", data |-> "result",
    checks |-> FALSE, paginates |-> FALSE,
    options |-> NoOptions],
   \* RemovePullRequestUserGroupReviewer
   [name |-> "PullRequests.RemovePullRequestUserGroupReviewer", via |-> "Delete", method |-> "DELETE",
    format |-> <<Lit(<<"r","e","p","o","s","/">>),
                 ArgS(1),
                 Lit(<<"/","p","u","l","l","r","e","q","/">>),
                 ArgD(2),
                 Lit(<<"/","r","e","v","i","e","w","e","r","s","/","u","s","e","r","g","r","o","u","p","s","/">>),
                 ArgD(3)>>,
    result |-> None, body |-> "nil", data |-> "none",
    checks |-> FALSE, paginates |-> FALSE,
    options |-> NoOptions]
  }

\* the operations of RepositoriesService in pullrequests.go
RepositoriesService_pullrequests ==
  {
   \* ListTags
   [name |-> "Repositories.ListTags", via |-> "direct", method |-> "GET",
    format |-> <<Lit(<<"r","e","p","o","s","/">>),
                 ArgS(1),
                 Lit(<<"/","t","a","g","s">>)>>,
    result |-> Some("slice"), body |-> "none", data |-> "result",
    checks |-> TRUE, paginates |-> TRUE,
    options |-> Options("ListTagsOptions", TRUE,
                  EmbeddedListOptions \o
                  <<Field("Query", "query", "string"),
                    Field("Sort", "sort", "string"),
                    Field("Order", "order", "string"),
                    Field("IncludeCommit", "include_commit", "bool")>>,
                  "embedded",
                  <<QueryParam("query", "Query", "%s"),
                    QueryParam("sort", "Sort", "%s"),
                    QueryParam("order", "Order", "%s"),
                    QueryParam("include_commit", "IncludeCommit", "%t")>>)],
   \* CreateTag
   [name |-> "Repositories.CreateTag", via |-> "Post", method |-> "POST",
    format |-> <<Lit(<<"r","e","p","o","s","/">>),
                 ArgS(1),
                 Lit(<<"/","t","a","g","s">>)>>,
    result |-> Some("struct"), body |-> "value", data |-> "result",
    checks |-> FALSE, paginates |-> FALSE,
    options |-> NoOptions],
   \* DeleteTag
   [name |-> "Repositories.DeleteTag", via |-> "DeleteWithResponse", method |-> "DELETE",
    format |-> <<Lit(<<"r","e","p","o","s","/">>),
                 ArgS(1),
                 Lit(<<"/","t","a","g","s","/">>),
                 ArgS(2)>>,
    result |-> Some("struct"), body |-> "nil", data |-> "result",
    checks |-> FALSE, paginates |-> FALSE,
    options |-> NoOptions],
   \* CommitFiles
   [name |-> "Repositories.CommitFiles", via |-> "Post", method |-> "POST",
    format |-> <<Lit(<<"r","e","p","o","s","/">>),
                 ArgS(1),
                 Lit(<<"/","c","o","m","m","i","t","s">>)>>,
    result |-> Some("struct"), body |-> "value", data |-> "result",
    checks |-> FALSE, paginates |-> FALSE,
    options |-> NoOptions],
   \* GetCommitDiff
   [name |-> "Repositories.GetCommitDiff", via |-> "direct", method |-> "GET",
    format |-> <<Lit(<<"r","e","p","o","s","/">>),
                 ArgS(1),
                 Lit(<<"/","c","o","m","m","i","t","s","/">>),
                 ArgS(2),
                 Lit(<<"/","d","i","f","f">>)>>,
    result |-> None, body |-> "none", data |-> "string",
    checks |-> TRUE, paginates |-> FALSE,
    options |-> Options("GetCommitDiffOptions", TRUE,
                  <<Field("IgnoreWhitespace", "ignore_whitespace", "bool")>>,
                  "none",
                  <<QueryParam("ignore_whitespace", "IgnoreWhitespace", "%t")>>)],
   \* CalculateCommitDivergence
   [name |-> "Repositories.CalculateCommitDivergence", via |-> "Post", method |-> "POST",
    format |-> <<Lit(<<"r","e","p","o","s","/">>),
                 ArgS(1),
                 Lit(<<"/","c","o","m","m","i","t","s","/","c","a","l","c","u","l","a","t","e","-","d","i","v","e","r","g","e","n","c","e">>)>>,
    result |-> Some("slice"), body |-> "value", data |-> "result",
    checks |-> FALSE, paginates |-> FALSE,
    options |-> NoOptions]
  }

\* the operations of ResourceService in resources.go
ResourceService ==
  {
   \* ListGitIgnoreTemplates
   [name |-> "Resource.ListGitIgnoreTemplates", via |-> "Get", method |-> "GET",
    format |-> <<Lit(<<"r","e","s","o","u","r","c","e","s","/","g","i","t","i","g","n","o","r","e">>)>>,
    result |-> Some("slice"), body |-> "none", data |-> "result",
    checks |-> FALSE, paginates |-> FALSE,
    options |-> NoOptions],
   \* ListLicenseTemplates
   [name |-> "Resource.ListLicenseTemplates", via |-> "Get", method |-> "GET",
    format |-> <<Lit(<<"r","e","s","o","u","r","c","e","s","/","l","i","c","e","n","s","e">>)>>,
    result |-> Some("slice"), body |-> "none", data |-> "result",
    checks |-> FALSE, paginates |-> FALSE,
    options |-> NoOptions]
  }

\* the operations of WebhooksService in services.go
WebhooksService ==
  {
   \* CreateWebhook
   [name |-> "Webhooks.CreateWebhook", via |-> "Post", method |-> "POST",
    format |-> <<Lit(<<"r","e","p","o","s","/">>),
                 ArgS(1),
                 Lit(<<"/","w","e","b","h","o","o","k","s">>)>>,
    result |-> Some("struct"), body |-> "value", data |-> "result",
    checks |-> FALSE, paginates |-> FALSE,
    options |-> NoOptions],
   \* ListWebhooks
   [name |-> "Webhooks.ListWebhooks", via |-> "performListRequest", method |-> "GET",
    format |-> <<Lit(<<"r","e","p","o","s","/">>),
                 ArgS(1),
                 Lit(<<"/","w","e","b","h","o","o","k","s">>)>>,
    result |-> Some("slice"), body |-> "none", data |-> "result",
    checks |-> FALSE, paginates |-> FALSE,
    options |-> Options("ListOptions", FALSE,
                  ListOptionsFields,
                  "whole",
                  <<>>)]
  }

\* the operations of SecretsService in services.go
SecretsService ==
  {
   \* CreateSecret
   [name |-> "Secrets.CreateSecret", via |-> "Post", method |-> "POST",
    format |-> <<Lit(<<"r","e","p","o","s","/">>),
                 ArgS(1),
                 Lit(<<"/","s","e","c","r","e","t","s">>)>>,
    result |-> Some("struct"), body |-> "value", data |-> "result",
    checks |-> FALSE, paginates |-> FALSE,
    options |-> NoOptions],
   \* ListRepoSecrets
   [name |-> "Secrets.ListRepoSecrets", via |-> "performListRequest", method |-> "GET",
    format |-> <<Lit(<<"r","e","p","o","s","/">>),
                 ArgS(1),
                 Lit(<<"/","s","e","c","r","e","t","s">>)>>,
    result |-> Some("slice"), body |-> "none", data |-> "result",
    checks |-> FALSE, paginates |-> FALSE,
    options |-> Options("ListOptions", FALSE,
                  ListOptionsFields,
                  "whole",
                  <<>>)],
   \* CreateRepoSecret
   [name |-> "Secrets.CreateRepoSecret", via |-> "Post", method |-> "POST",
    format |-> <<Lit(<<"r","e","p","o","s","/">>),
                 ArgS(1),
                 Lit(<<"/","s","e","c","r","e","t","s">>)>>,
    result |-> Some("struct"), body |-> "value", data |-> "result",
    checks |-> FALSE, paginates |-> FALSE,
    options |-> NoOptions],
   \* ListSpaceSecrets
   [name |-> "Secrets.ListSpaceSecrets", via |-> "performListRequest", method |-> "GET",
    format |-> <<Lit(<<"s","p","a","c","e","s","/">>),
                 ArgS(1),
                 Lit(<<"/","s","e","c","r","e","t","s">>)>>,
    result |-> Some("slice"), body |-> "none", data |-> "result",
    checks |-> FALSE, paginates |-> FALSE,
    options |-> Options("ListOptions", FALSE,
                  ListOptionsFields,
                  "whole",
                  <<>>)],
   \* CreateSpaceSecret
   [name |-> "Secrets.CreateSpaceSecret", via |-> "Post", method |-> "POST",
    format |-> <<Lit(<<"s","p","a","c","e","s","/">>),
                 ArgS(1),
                 Lit(<<"/","s","e","c","r","e","t","s">>)>>,
    result |-> Some("struct"), body |-> "value", data |-> "result",
    checks |-> FALSE, paginates |-> FALSE,
    options |-> NoOptions],
   \* ListGlobalSecrets
   [name |-> "Secrets.ListGlobalSecrets", via |-> "performListRequest", method |-> "GET",
    format |-> <<Lit(<<"s","e","c","r","e","t","s">>)>>,
    result |-> Some("slice"), body |-> "none", data |-> "result",
    checks |-> FALSE, paginates |-> FALSE,
    options |-> Options("ListOptions", FALSE,
                  ListOptionsFields,
                  "whole",
                  <<>>)],
   \* CreateGlobalSecret
   [name |-> "Secrets.CreateGlobalSecret", via |-> "Post", method |-> "POST",
    format |-> <<Lit(<<"s","e","c","r","e","t","s">>)>>,
    result |-> Some("struct"), body |-> "value", data |-> "result",
    checks |-> FALSE, paginates |-> FALSE,
    options |-> NoOptions],
   \* GetSecret
   [name |-> "Secrets.GetSecret", via |-> "Get", method |-> "GET",
    format |-> <<Lit(<<"s","e","c","r","e","t","s","/">>),
                 ArgS(1)>>,
    result |-> Some("struct"), body |-> "none", data |-> "result",
    checks |-> FALSE, paginates |-> FALSE,
    options |-> NoOptions],
   \* UpdateSecret
   [name |-> "Secrets.UpdateSecret", via |-> "Patch", method |-> "PATCH",
    format |-> <<Lit(<<"s","e","c","r","e","t","s","/">>),
                 ArgS(1)>>,
    result |-> Some("struct"), body |-> "value", data |-> "result",
    checks |-> FALSE, paginates |-> FALSE,
    options |-> NoOptions],
   \* DeleteSecret
   [name |-> "Secrets.DeleteSecret", via |-> "Delete", method |-> "DELETE",
    format |-> <<Lit(<<"s","e","c","r","e","t","s","/">>),
                 ArgS(1)>>,
    result |-> None, body |-> "nil", data |-> "none",
    checks |-> FALSE, paginates |-> FALSE,
    options |-> NoOptions]
  }

\* the operations of GitspacesService in services.go
GitspacesService ==
  {
   \* ListGitspaces
   [name |-> "Gitspaces.ListGitspaces", via |-> "direct", method |-> "GET",
    format |-> <<Lit(<<"g","i","t","s","p","a","c","e","s">>)>>,
    result |-> Some("slice"), body |-> "none", data |-> "result",
    checks |-> TRUE, paginates |-> TRUE,
    options |-> Options("ListGitspacesOptions", TRUE,
                  EmbeddedListOptions \o
                  <<Field("SpaceRef", "space_ref", "string")>>,
                  "embedded",
                  <<QueryParam("space_ref", "SpaceRef", "%s")>>)],
   \* CreateGitspace
   [name |-> "Gitspaces.CreateGitspace", via |-> "Post", method |-> "POST",
    format |-> <<Lit(<<"g","i","t","s","p","a","c","e","s">>)>>,
    result |-> Some("struct"), body |-> "value", data |-> "result",
    checks |-> FALSE, paginates |-> FALSE,
    options |-> NoOptions],
   \* FindGitspace
   [name |-> "Gitspaces.FindGitspace", via |-> "Get", method |-> "GET",
    format |-> <<Lit(<<"g","i","t","s","p","a","c","e","s","/">>),
                 ArgS(1)>>,
    result |-> Some("struct"), body |-> "none", data |-> "result",
    checks |-> FALSE, paginates |-> FALSE,
    options |-> NoOptions],
   \* DeleteGitspace
   [name |-> "Gitspaces.DeleteGitspace", via |-> "Delete", method |-> "DELETE",
    format |-> <<Lit(<<"g","i","t","s","p","a","c","e","s","/">>),
                 ArgS(1)>>,
    result |-> None, body |-> "nil", data |-> "none",
    checks |-> FALSE, paginates |-> FALSE,
    options |-> NoOptions],
   \* ActionOnGitspace
   [name |-> "Gitspaces.ActionOnGitspace", via |-> "Post", method |-> "POST",
    format |-> <<Lit(<<"g","i","t","s","p","a","c","e","s","/">>),
                 ArgS(1),
                 Lit(<<"/","a","c","t","i","o","n","s">>)>>,
    result |-> Some("struct"), body |-> "value", data |-> "result",
    checks |-> FALSE, paginates |-> FALSE,
    options |-> NoOptions],
   \* ListGitspaceEvents
   [name |-> "Gitspaces.ListGitspaceEvents", via |-> "direct", method |-> "GET",
    format |-> <<Lit(<<"g","i","t","s","p","a","c","e","s","/">>),
                 ArgS(1),
                 Lit(<<"/","e","v","e","n","t","s">>)>>,
    result |-> Some("slice"), body |-> "none", data |-> "result",
    checks |-> TRUE, paginates |-> TRUE,
    options |-> Options("ListGitspaceEventsOptions", TRUE,
                  EmbeddedListOptions,
                  "embedded",
                  <<>>)]
  }

\* the operations of InfraProvidersService in services.go
InfraProvidersService ==
  {
   \* CreateInfraProvider
   [name |-> "InfraProviders.CreateInfraProvider", via |-> "Post", method |-> "POST",
    format |-> <<Lit(<<"s","p","a","c","e","s","/">>),
                 ArgS(1),
                 Lit(<<"/","i","n","f","r","a","-","p","r","o","v","i","d","e","r","s">>)>>,
    result |-> Some("struct"), body |-> "value", data |-> "result",
    checks |-> FALSE, paginates |-> FALSE,
    options |-> NoOptions],
   \* GetInfraProvider
   [name |-> "InfraProviders.GetInfraProvider", via |-> "Get", method |-> "GET",
    format |-> <<Lit(<<"s","p","a","c","e","s","/">>),
                 ArgS(1),
                 Lit(<<"/","i","n","f","r","a","-","p","r","o","v","i","d","e","r","s","/">>),
                 ArgS(2)>>,
    result |-> Some("struct"), body |-> "none", data |-> "result",
    checks |-> FALSE, paginates |-> FALSE,
    options |-> NoOptions]
  }

\* the operations of SystemService in system.go
SystemService ==
  {
   \* GetSystemConfig
   [name |-> "System.GetSystemConfig", via |-> "Get", method |-> "GET",
    format |-> <<Lit(<<"s","y","s","t","e","m","/","c","o","n","f","i","g">>)>>,
    result |-> Some("struct"), body |-> "none", data |-> "result",
    checks |-> FALSE, paginates |-> FALSE,
    options |-> NoOptions]
  }

\* the operations of AuditService in system.go
AuditService ==
  {
   \* ListAuditLogs
   [name |-> "Audit.ListAuditLogs", via |-> "direct", method |-> "GET",
    format |-> <<Lit(<<"a","d","m","i","n","/","a","u","d","i","t">>)>>,
    result |-> Some("slice"), body |-> "none", data |-> "result",
    checks |-> TRUE, paginates |-> TRUE,
    options |-> Options("ListAuditLogsOptions", TRUE,
                  EmbeddedListOptions \o
                  <<Field("UserUID", "user_uid", "string"),
                    Field("Action", "action", "string"),
                    Field("ResourceType", "resource_type", "string"),
                    Field("ResourceIdentifier", "resource_identifier", "string"),
                    Field("From", "from", "time"),
                    Field("To", "to", "time")>>,
                  "embedded",
                  <<QueryParam("user_uid", "UserUID", "%s"),
                    QueryParam("action", "Action", "%s"),
                    QueryParam("resource_type", "ResourceType", "%s"),
                    QueryParam("resource_identifier", "ResourceIdentifier", "%s"),
                    QueryParam("from", "From", "String()"),
                    QueryParam("to", "To", "String()")>>)],
   \* GetAuditLog
   [name |-> "Audit.GetAuditLog", via |-> "Get", method |-> "GET",
    format |-> <<Lit(<<"a","d","m","i","n","/","a","u","d","i","t","/">>),
                 ArgD(1)>>,
    result |-> Some("struct"), body |-> "none", data |-> "result",
    checks |-> FALSE, paginates |-> FALSE,
    options |-> NoOptions],
   \* CleanupAuditLogs
   [name |-> "Audit.CleanupAuditLogs", via |-> "Post", method |-> "POST",
    format |-> <<Lit(<<"a","d","m","i","n","/","a","u","d","i","t","/","c","l","e","a","n","u","p">>)>>,
    result |-> None, body |-> "nil", data |-> "none",
    checks |-> FALSE, paginates |-> FALSE,
    options |-> NoOptions]
  }

\* the operations of AdminService in system.go
AdminService ==
  {
   \* ListUsers
   [name |-> "Admin.ListUsers", via |-> "direct", method |-> "GET",
    format |-> <<Lit(<<"a","d","m","i","n","/","u","s","e","r","s">>)>>,
    result |-> Some("slice"), body |-> "none", data |-> "result",
    checks |-> TRUE, paginates |-> TRUE,
    options |-> Options("ListUsersOptions", TRUE,
                  EmbeddedListOptions \o
                  <<Field("Admin", "admin", "bool"),
                    Field("Blocked", "blocked", "bool")>>,
                  "none",
                  <<QueryParam("page", "ListOptions.Page", "%d"),
                    QueryParam("limit", "ListOptions.Limit", "%d"),
                    QueryParam("sort", "ListOptions.Sort", "%s"),
                    QueryParam("order", "ListOptions.Order", "%s"),
                    QueryParam("query", "ListOptions.Query", "%s"),
                    QueryParam("admin", "Admin", "%t"),
                    QueryParam("blocked", "Blocked", "%t")>>)],
   \* GetUser
   [name |-> "Admin.GetUser", via |-> "Get", method |-> "GET",
    format |-> <<Lit(<<"a","d","m","i","n","/","u","s","e","r","s","/">>),
                 ArgS(1)>>,
    result |-> Some("struct"), body |-> "none", data |-> "result",
    checks |-> FALSE, paginates |-> FALSE,
    options |-> NoOptions],
   \* UpdateUserAdminStatus
   [name |-> "Admin.UpdateUserAdminStatus", via |-> "Patch", method |-> "PATCH",
    format |-> <<Lit(<<"a","d","m","i","n","/","u","s","e","r","s","/">>),
                 ArgS(1),
                 Lit(<<"/","a","d","m","i","n">>)>>,
    result |-> Some("struct"), body |-> "value", data |-> "result",
    checks |-> FALSE, paginates |-> FALSE,
    options |-> NoOptions],
   \* UpdateUserBlockedStatus
   [name |-> "Admin.UpdateUserBlockedStatus", via |-> "Patch", method |-> "PATCH",
    format |-> <<Lit(<<"a","d","m","i","n","/","u","s","e","r","s","/">>),
                 ArgS(1),
                 Lit(<<"/","b","l","o","c","k","e","d">>)>>,
    result |-> Some("struct"), body |-> "value", data |-> "result",
    checks |-> FALSE, paginates |-> FALSE,
    options |-> NoOptions],
   \* CreateUser
   [name |-> "Admin.CreateUser", via |-> "Post", method |-> "POST",
    format |-> <<Lit(<<"a","d","m","i","n","/","u","s","e","r","s">>)>>,
    result |-> Some("struct"), body |-> "value", data |-> "result",
    checks |-> FALSE, paginates |-> FALSE,
    options |-> NoOptions],
   \* UpdateUser
   [name |-> "Admin.UpdateUser", via |-> "Patch", method |-> "PATCH",
    format |-> <<Lit(<<"a","d","m","i","n","/","u","s","e","r","s","/">>),
                 ArgS(1)>>,
    result |-> Some("struct"), body |-> "value", data |-> "result",
    checks |-> FALSE, paginates |-> FALSE,
    options |-> NoOptions],
   \* DeleteUser
   [name |-> "Admin.DeleteUser", via |-> "Delete", method |-> "DELETE",
    format |-> <<Lit(<<"a","d","m","i","n","/","u","s","e","r","s","/">>),
                 ArgS(1)>>,
    result |-> None, body |-> "nil", data |-> "none",
    checks |-> FALSE, paginates |-> FALSE,
    options |-> NoOptions],
   \* SearchLDAPUsers
   [name |-> "Admin.SearchLDAPUsers", via |-> "direct", method |-> "GET",
    format |-> <<Lit(<<"a","d","m","i","n","/","l","d","a","p","/","u","s","e","r","s">>)>>,
    result |-> Some("slice"), body |-> "none", data |-> "result",
    checks |-> TRUE, paginates |-> TRUE,
    options |-> Options("SearchLDAPUsersOptions", TRUE,
                  EmbeddedListOptions \o
                  <<Field("Query", "query", "string")>>,
                  "embedded",
                  <<QueryParam("query", "Query", "%s")>>)],
   \* SyncLDAPUsers
   [name |-> "Admin.SyncLDAPUsers", via |-> "Post", method |-> "POST",
    format |-> <<Lit(<<"a","d","m","i","n","/","l","d","a","p","/","u","s","e","r","s","/","s","y","n","c">>)>>,
    result |-> Some("struct"), body |-> "value", data |-> "result",
    checks |-> FALSE, paginates |-> FALSE,
    options |-> NoOptions]
  }

\* the operations of UploadService in unnamed/part_000
UploadService ==
  {
   \* CreateUpload
   [name |-> "Upload.CreateUpload", via |-> "Post", method |-> "POST",
    format |-> <<Lit(<<"r","e","p","o","s","/">>),
                 ArgS(1),
                 Lit(<<"/","u","p","l","o","a","d","s">>)>>,
    result |-> Some("struct"), body |-> "value", data |-> "result",
    checks |-> FALSE, paginates |-> FALSE,
    options |-> NoOptions],
   \* GetUpload
   [name |-> "Upload.GetUpload", via |-> "Get", method |-> "GET",
    format |-> <<Lit(<<"r","e","p","o","s","/">>),
                 ArgS(1),
                 Lit(<<"/","u","p","l","o","a","d","s","/">>),
                 ArgS(2)>>,
    result |-> Some("struct"), body |-> "none", data |-> "result",
    checks |-> FALSE, paginates |-> FALSE,
    options |-> NoOptions]
  }

\* the operations of UsersService in unnamed/part_004
UsersService ==
  {
   \* GetCurrentUser
   [name |-> "Users.GetCurrentUser", via |-> "Get", method |-> "GET",
    format |-> <<Lit(<<"u","s","e","r">>)>>,
    result |-> Some("struct"), body |-> "none", data |-> "result",
    checks |-> FALSE, paginates |-> FALSE,
    options |-> NoOptions],
   \* GetUser
   [name |-> "Users.GetUser", via |-> "Get", method |-> "GET",
    format |-> <<Lit(<<"u","s","e","r","s","/">>),
                 ArgEsc(1)>>,
    result |-> Some("struct"), body |-> "none", data |-> "result",
    checks |-> FALSE, paginates |-> FALSE,
    options |-> NoOptions],
   \* ListUserKeys
   [name |-> "Users.ListUserKeys", via |-> "direct", method |-> "GET",
    format |-> <<Lit(<<"u","s","e","r","/","k","e","y","s">>)>>,
    result |-> Some("slice"), body |-> "none", data |-> "result",
    checks |-> TRUE, paginates |-> TRUE,
    options |-> Options("ListPublicKeysOptions", TRUE,
                  EmbeddedListOptions \o
                  <<Field("Usage", "usage", "string")>>,
                  "embedded",
                  <<QueryParam("usage", "Usage", "%s")>>)],
   \* CreateUserKey
   [name |-> "Users.CreateUserKey", via |-> "Post", method |-> "POST",
    format |-> <<Lit(<<"u","s","e","r","/","k","e","y","s">>)>>,
    result |-> Some("struct"), body |-> "value", data |-> "result",
    checks |-> FALSE, paginates |-> FALSE,
    options |-> NoOptions],
   \* GetUserKey
   [name |-> "Users.GetUserKey", via |-> "Get", method |-> "GET",
    format |-> <<Lit(<<"u","s","e","r","/","k","e","y","s","/">>),
                 ArgEsc(1)>>,
    result |-> Some("struct"), body |-> "none", data |-> "result",
    checks |-> FALSE, paginates |-> FALSE,
    options |-> NoOptions],
   \* DeleteUserKey
   [name |-> "Users.DeleteUserKey", via |-> "Delete", method |-> "DELETE",
    format |-> <<Lit(<<"u","s","e","r","/","k","e","y","s","/">>),
                 ArgEsc(1)>>,
    result |-> None, body |-> "nil", data |-> "none",
    checks |-> FALSE, paginates |-> FALSE,
    options |-> NoOptions],
   \* ListUserTokens
   [name |-> "Users.ListUserTokens", via |-> "direct", method |-> "GET",
    format |-> <<Lit(<<"u","s","e","r","/","t","o","k","e","n","s">>)>>,
    result |-> Some("slice"), body |-> "none", data |-> "result",
    checks |-> TRUE, paginates |-> TRUE,
    options |-> Options("ListTokensOptions", TRUE,
                  EmbeddedListOptions,
                  "embedded",
                  <<>>)],
   \* CreateUserToken
   [name |-> "Users.CreateUserToken", via |-> "Post", method |-> "POST",
    format |-> <<Lit(<<"u","s","e","r","/","t","o","k","e","n","s">>)>>,
    result |-> Some("struct"), body |-> "value", data |-> "result",
    checks |-> FALSE, paginates |-> FALSE,
    options |-> NoOptions],
   \* DeleteUserToken
   [name |-> "Users.DeleteUserToken", via |-> "Delete", method |-> "DELETE",
    format |-> <<Lit(<<"u","s","e","r","/","t","o","k","e","n","s","/">>),
                 ArgEsc(1)>>,
    result |-> None, body |-> "nil", data |-> "none",
    checks |-> FALSE, paginates |-> FALSE,
    options |-> NoOptions],
   \* ListUserMemberships
   [name |-> "Users.ListUserMemberships", via |-> "Get", method |-> "GET",
    format |-> <<Lit(<<"u","s","e","r","/","m","e","m","b","e","r","s","h","i","p","s">>)>>,
    result |-> Some("slice"), body |-> "none", data |-> "result",
    checks |-> FALSE, paginates |-> FALSE,
    options |-> NoOptions],
   \* ListUserFavorites
   [name |-> "Users.ListUserFavorites", via |-> "Get", method |-> "GET",
    format |-> <<Lit(<<"u","s","e","r","/","f","a","v","o","r","i","t","e">>)>>,
    result |-> Some("slice"), body |-> "none", data |-> "result",
    checks |-> FALSE, paginates |-> FALSE,
    options |-> NoOptions],
   \* AddUserFavorite
   [name |-> "Users.AddUserFavorite", via |-> "Post", method |-> "POST",
    format |-> <<Lit(<<"u","s","e","r","/","f","a","v","o","r","i","t","e","/">>),
                 ArgD(1)>>,
    result |-> Some("struct"), body |-> "nil", data |-> "result",
    checks |-> FALSE, paginates |-> FALSE,
    options |-> NoOptions],
   \* RemoveUserFavorite
   [name |-> "Users.RemoveUserFavorite", via |-> "Delete", method |-> "DELETE",
    format |-> <<Lit(<<"u","s","e","r","/","f","a","v","o","r","i","t","e","/">>),
                 ArgD(1)>>,
    result |-> None, body |-> "nil", data |-> "none",
    checks |-> FALSE, paginates |-> FALSE,
    options |-> NoOptions]
  }

\* the operations of PipelinesService in unnamed/part_006
PipelinesService_part_006 ==
  {
   \* CreatePipeline
   [name |-> "Pipelines.CreatePipeline", via |-> "Post", method |-> "POST",
    format |-> <<Lit(<<"r","e","p","o","s","/">>),
                 ArgS(1),
                 Lit(<<"/","p","i","p","e","l","i","n","e","s">>)>>,
    result |-> Some("struct"), body |-> "value", data |-> "result",
    checks |-> FALSE, paginates |-> FALSE,
    options |-> NoOptions],
   \* UpdatePipeline
   [name |-> "Pipelines.UpdatePipeline", via |-> "Patch", method |-> "PATCH",
    format |-> <<Lit(<<"r","e","p","o","s","/">>),
                 ArgS(1),
                 Lit(<<"/","p","i","p","e","l","i","n","e","s","/">>),
                 ArgS(2)>>,
    result |-> Some("struct"), body |-> "value", data |-> "result",
    checks |-> FALSE, paginates |-> FALSE,
    options |-> NoOptions],
   \* DeletePipeline
   [name |-> "Pipelines.DeletePipeline", via |-> "Delete", method |-> "DELETE",
    format |-> <<Lit(<<"r","e","p","o","s","/">>),
                 ArgS(1),
                 Lit(<<"/","p","i","p","e","l","i","n","e","s","/">>),
                 ArgS(2)>>,
    result |-> None, body |-> "nil", data |-> "none",
    checks |-> FALSE, paginates |-> FALSE,
    options |-> NoOptions],
   \* CreateExecution
   [name |-> "Pipelines.CreateExecution", via |-> "direct", method |-> "POST",
    format |-> <<Lit(<<"r","e","p","o","s","/">>),
                 ArgS(1),
                 Lit(<<"/","p","i","p","e","l","i","n","e","s","/">>),
                 ArgS(2),
                 Lit(<<"/","e","x","e","c","u","t","i","o","n","s">>)>>,
    result |-> Some("struct"), body |-> "none", data |-> "result",
    checks |-> TRUE, paginates |-> FALSE,
    options |-> NoOptions],
   \* DeleteExecution
   [name |-> "Pipelines.DeleteExecution", via |-> "Delete", method |-> "DELETE",
    format |-> <<Lit(<<"r","e","p","o","s","/">>),
                 ArgS(1),
                 Lit(<<"/","p","i","p","e","l","i","n","e","s","/">>),
                 ArgS(2),
                 Lit(<<"/","e","x","e","c","u","t","i","o","n","s","/">>),
                 ArgD(3)>>,
    result |-> None, body |-> "nil", data |-> "none",
    checks |-> FALSE, paginates |-> FALSE,
    options |-> NoOptions],
   \* ViewExecutionLogs
   [name |-> "Pipelines.ViewExecutionLogs", via |-> "Get", method |-> "GET",
    format |-> <<Lit(<<"r","e","p","o","s","/">>),
                 ArgS(1),
                 Lit(<<"/","p","i","p","e","l","i","n","e","s","/">>),
                 ArgS(2),
                 Lit(<<"/","e","x","e","c","u","t","i","o","n","s","/">>),
                 ArgD(3),
                 Lit(<<"/","l","o","g","s","/">>),
                 ArgD(4),
                 Lit(<<"/">>),
                 ArgD(5)>>,
    result |-> Some("slice"), body |-> "none", data |-> "result",
    checks |-> FALSE, paginates |-> FALSE,
    options |-> NoOptions]
  }

\* the operations of PluginsService in unnamed/part_007
PluginsService ==
  {
   \* ListPlugins
   [name |-> "Plugins.ListPlugins", via |-> "Get", method |-> "GET",
    format |-> <<Lit(<<"p","l","u","g","i","n","s">>)>>,
    result |-> Some("slice"), body |-> "none", data |-> "result",
    checks |-> FALSE, paginates |-> FALSE,
    options |-> NoOptions]
  }

\* the operations of SpacesService in unnamed/part_008
SpacesService ==
  {
   \* GetSpace
   [name |-> "Spaces.GetSpace", via |-> "Get", method |-> "GET",
    format |-> <<Lit(<<"s","p","a","c","e","s","/">>),
                 ArgS(1)>>,
    result |-> Some("struct"), body |-> "none", data |-> "result",
    checks |-> FALSE, paginates |-> FALSE,
    options |-> NoOptions],
   \* ListSpaces
   [name |-> "Spaces.ListSpaces", via |-> "direct", method |-> "GET",
    format |-> <<Lit(<<"s","p","a","c","e","s">>)>>,
    result |-> Some("slice"), body |-> "none", data |-> "result",
    checks |-> TRUE, paginates |-> TRUE,
    options |-> Options("ListSpacesOptions", TRUE,
                  EmbeddedListOptions \o
                  <<Field("Recursive", "recursive", "bool")>>,
                  "embedded",
                  <<QueryParam("recursive", "Recursive", "%t")>>)],
   \* CreateSpace
   [name |-> "Spaces.CreateSpace", via |-> "Post", method |-> "POST",
    format |-> <<Lit(<<"s","p","a","c","e","s">>)>>,
    result |-> Some("struct"), body |-> "value", data |-> "result",
    checks |-> FALSE, paginates |-> FALSE,
    options |-> NoOptions],
   \* UpdateSpace
   [name |-> "Spaces.UpdateSpace", via |-> "Patch", method |-> "PATCH",
    format |-> <<Lit(<<"s","p","a","c","e","s","/">>),
                 ArgS(1)>>,
    result |-> Some("struct"), body |-> "value", data |-> "result",
    checks |-> FALSE, paginates |-> FALSE,
    options |-> NoOptions],
   \* DeleteSpace
   [name |-> "Spaces.DeleteSpace", via |-> "Delete", method |-> "DELETE",
    format |-> <<Lit(<<"s","p","a","c","e","s","/">>),
                 ArgS(1)>>,
    result |-> None, body |-> "value", data |-> "none",
    checks |-> FALSE, paginates |-> FALSE,
    options |-> NoOptions],
   \* ListRepositories
   [name |-> "Spaces.ListRepositories", via |-> "direct", method |-> "GET",
    format |-> <<Lit(<<"s","p","a","c","e","s","/">>),
                 ArgS(1),
                 Lit(<<"/","r","e","p","o","s">>)>>,
    result |-> Some("slice"), body |-> "none", data |-> "result",
    checks |-> TRUE, paginates |-> TRUE,
    options |-> Options("ListRepositoriesOptions", TRUE,
                  EmbeddedListOptions \o
                  <<Field("Recursive", "recursive", "bool")>>,
                  "embedded",
                  <<QueryParam("sort", "ListOptions.Sort", "%s"),
                    QueryParam("order", "ListOptions.Order", "%s"),
                    QueryParam("query", "ListOptions.Query", "%s")>>)]
  }

\* the operations of ChecksService in examples/extended_services/main.go
ChecksService ==
  {
   \* CreateCheck
   [name |-> "Checks.CreateCheck", via |-> "Post", method |-> "POST",
    format |-> <<Lit(<<"r","e","p","o","s","/">>),
                 ArgS(1),
                 Lit(<<"/","c","o","m","m","i","t","s","/">>),
                 ArgS(2),
                 Lit(<<"/","c","h","e","c","k","s">>)>>,
    result |-> Some("struct"), body |-> "value", data |-> "result",
    checks |-> FALSE, paginates |-> FALSE,
    options |-> NoOptions],
   \* UpdateCheck
   [name |-> "Checks.UpdateCheck", via |-> "Patch", method |-> "PATCH",
    format |-> <<Lit(<<"r","e","p","o","s","/">>),
                 ArgS(1),
                 Lit(<<"/","c","o","m","m","i","t","s","/">>),
                 ArgS(2),
                 Lit(<<"/","c","h","e","c","k","s","/">>),
                 ArgS(3)>>,
    result |-> Some("struct"), body |-> "value", data |-> "result",
    checks |-> FALSE, paginates |-> FALSE,
    options |-> NoOptions],
   \* ListChecks
   [name |-> "Checks.ListChecks", via |-> "direct", method |-> "GET",
    format |-> <<Lit(<<"r","e","p","o","s","/">>),
                 ArgS(1),
                 Lit(<<"/","c","o","m","m","i","t","s","/">>),
                 ArgS(2),
                 Lit(<<"/","c","h","e","c","k","s">>)>>,
    result |-> Some("slice"), body |-> "none", data |-> "result",
    checks |-> TRUE, paginates |-> TRUE,
    options |-> Options("ListChecksOptions", TRUE,
                  <<Field("Latest", "latest", "bool")>>,
                  "none",
                  <<QueryParam("latest", "Latest", "%t")>>)],
   \* GetCheck
   [name |-> "Checks.GetCheck", via |-> "Get", method |-> "GET",
    format |-> <<Lit(<<"r","e","p","o","s","/">>),
                 ArgS(1),
                 Lit(<<"/","c","o","m","m","i","t","s","/">>),
                 ArgS(2),
                 Lit(<<"/","c","h","e","c","k","s","/">>),
                 ArgS(3)>>,
    result |-> Some("struct"), body |-> "none", data |-> "result",
    checks |-> FALSE, paginates |-> FALSE,
    options |-> NoOptions]
  }

\* the operations of TemplatesService in examples/extended_services/main.go
TemplatesService ==
  {
   \* CreateTemplate
   [name |-> "Templates.CreateTemplate", via |-> "Post", method |-> "POST",
    format |-> <<Lit(<<"s","p","a","c","e","s","/">>),
                 ArgS(1),
                 Lit(<<"/","t","e","m","p","l","a","t","e","s">>)>>,
    result |-> Some("struct"), body |-> "value", data |-> "result",
    checks |-> FALSE, paginates |-> FALSE,
    options |-> NoOptions],
   \* ListTemplates
   [name |-> "Templates.ListTemplates", via |-> "performListRequest", method |-> "GET",
    format |-> <<Lit(<<"s","p","a","c","e","s","/">>),
                 ArgS(1),
                 Lit(<<"/","t","e","m","p","l","a","t","e","s">>)>>,
    result |-> Some("slice"), body |-> "none", data |-> "result",
    checks |-> FALSE, paginates |-> FALSE,
    options |-> Options("ListOptions", FALSE,
                  ListOptionsFields,
                  "whole",
                  <<>>)],
   \* GetTemplate
   [name |-> "Templates.GetTemplate", via |-> "Get", method |-> "GET",
    format |-> <<Lit(<<"s","p","a","c","e","s","/">>),
                 ArgS(1),
                 Lit(<<"/","t","e","m","p","l","a","t","e","s","/">>),
                 ArgS(2)>>,
    result |-> Some("struct"), body |-> "none", data |-> "result",
    checks |-> FALSE, paginates |-> FALSE,
    options |-> NoOptions],
   \* UpdateTemplate
   [name |-> "Templates.UpdateTemplate", via |-> "Patch", method |-> "PATCH",
    format |-> <<Lit(<<"s","p","a","c","e","s","/">>),
                 ArgS(1),
                 Lit(<<"/","t","e","m","p","l","a","t","e","s","/">>),
                 ArgS(2)>>,
    result |-> Some("struct"), body |-> "value", data |-> "result",
    checks |-> FALSE, paginates |-> FALSE,
    options |-> NoOptions],
   \* DeleteTemplate
   [name |-> "Templates.DeleteTemplate", via |-> "Delete", method |-> "DELETE",
    format |-> <<Lit(<<"s","p","a","c","e","s","/">>),
                 ArgS(1),
                 Lit(<<"/","t","e","m","p","l","a","t","e","s","/">>),
                 ArgS(2)>>,
    result |-> None, body |-> "nil", data |-> "none",
    checks |-> FALSE, paginates |-> FALSE,
    options |-> NoOptions]
  }

\* every service operation
Operations ==
  AuthService \cup CiCacheService \cup ConnectorsService \cup
  PipelinesService \cup PrincipalsService \cup RepositoriesService \cup
  PullRequestsService \cup RepositoriesService_pullrequests \cup
  ResourceService \cup WebhooksService \cup SecretsService \cup
  GitspacesService \cup InfraProvidersService \cup SystemService \cup
  AuditService \cup AdminService \cup UploadService \cup UsersService \cup
  PipelinesService_part_006 \cup PluginsService \cup SpacesService \cup
  ChecksService \cup TemplatesService

\* the operation called name ("Service.Method")
Op(name) == CHOOSE op \in Operations : op.name = name

\* the Client helpers a caller may also use directly, with a path of its own
\* and with or without a result destination and a body
HelperCall(via, result, body) ==
  [name |-> "Client." \o via, via |-> via, method |-> "",
   format |-> <<ArgS(1)>>,
   result |-> result, body |-> body, data |-> "none",
   checks |-> FALSE, paginates |-> FALSE,
   options |-> IF via = "performListRequest"
               THEN Options("ListOptions", FALSE, ListOptionsFields, "whole", <<>>)
               ELSE NoOptions]

(***************************************************************************)
(* Building and sending a request                                          *)
(***************************************************************************)

\* strings.TrimRight(s, "/")
TrimRightSlash(s) ==
  LET keep == {i \in 1..Len(s) : s[i] # "/"}
  IN  IF keep = {} THEN <<>>
      ELSE SubSeq(s, 1, CHOOSE i \in keep : \A j \in keep : j <= i)

\* the URL of a request once req/v3 has parsed it: [ok, url]
Target(u) == [ok |-> u.ok, url |-> IF u.ok THEN urlString(u) ELSE <<>>]

\* a relative URL t appended to the BaseURL set by SetBaseURL, with one
\* slash between them
Rooted(BaseURL, t) ==
  urlParse(TrimRightSlash(BaseURL) \o (IF t # <<>> /\ Head(t) # "/" THEN <<"/">> \o t ELSE t))

\* the URL req/v3 sends a request for the parsed URL u to: an absolute URL is
\* used as it is, a relative one is appended to the BaseURL of the client
RequestTarget(BaseURL, u) ==
  IF ~u.ok \/ u.Scheme # <<>> THEN Target(u)
  ELSE Target(Rooted(BaseURL, urlString(u)))

\* the URL req/v3 sends a request to when given rawURL
RequestURL(BaseURL, rawURL) == RequestTarget(BaseURL, urlParse(rawURL))

\* a helper whose Patch sends PUT
MethodPatchAsPut(via) ==
  CASE via = "Get" -> "GET"
    [] via = "Post" -> "POST"
    [] via \in {"Put", "Patch"} -> "PUT"
    [] via \in {"Delete", "DeleteWithResponse"} -> "DELETE"
    [] via = "performListRequest" -> "GET"

\* the req/v3 call each helper ends with: req.Get(fullURL), req.Post(fullURL),
\* req.Put, req.Patch, req.Delete
Method(via) ==
  CASE via = "Get" -> "GET"
    [] via = "Post" -> "POST"
    [] via = "Put" -> "PUT"
    [] via = "Patch" -> "PATCH"
    [] via \in {"Delete", "DeleteWithResponse"} -> "DELETE"
    [] via = "performListRequest" -> "GET"

\* a Ptr that returns nil
PtrNil(v) == None

\* Ptr(v): return &v, a pointer that is not nil to a copy of v
Ptr(v) == Some(v)

\* fmt's %d for any integer
FormatInt(n) == IF n < 0 THEN <<"-">> \o Itoa(0 - n) ELSE Itoa(n)

\* fmt's %t
FormatBool(b) == IF b THEN <<"t","r","u","e">> ELSE <<"f","a","l","s","e">>

\* Time.String(): time.Time(t).Format(time.RFC3339), "2006-01-02T15:04:05Z07:00";
\* t holds the date, the time of day and the zone offset in minutes
TimeString(t) ==
  LET pad(n, w) == [i \in 1..(w - Len(Itoa(n))) |-> "0"] \o Itoa(n)
      off == IF t.offset < 0 THEN 0 - t.offset ELSE t.offset
  IN  pad(t.year, 4) \o <<"-">> \o pad(t.month, 2) \o <<"-">> \o pad(t.day, 2)
      \o <<"T">> \o pad(t.hour, 2) \o <<":">> \o pad(t.minute, 2) \o <<":">> \o pad(t.second, 2)
      \o (IF t.offset = 0 THEN <<"Z">>
          ELSE <<IF t.offset < 0 THEN "-" ELSE "+">>
               \o pad(off \div 60, 2) \o <<":">> \o pad(off % 60, 2))

\* the zero value of Time: January 1 of year 1, 00:00:00 UTC
ZeroTime ==
  [year |-> 1, month |-> 1, day |-> 1, hour |-> 0, minute |-> 0, second |-> 0, offset |-> 0]

\* package time, isLeap(year)
isLeap(year) == year % 4 = 0 /\ (year % 100 # 0 \/ year % 400 = 0)

\* package time, daysIn(month, year)
daysIn(month, year) ==
  IF month = 2 THEN (IF isLeap(year) THEN 29 ELSE 28)
  ELSE IF month \in {4, 6, 9, 11} THEN 30 ELSE 31

\* the instant a Time denotes: the day, counted from 0001-01-01, and the
\* second of that day in UTC, the wall clock reading less the zone offset
Instant(t) ==
  LET before == <<0, 31, 59, 90, 120, 151, 181, 212, 243, 273, 304, 334>>
      y == t.year - 1
      days == 365 * y + (y \div 4) - (y \div 100) + (y \div 400) + before[t.month]
              + (IF t.month > 2 /\ isLeap(t.year) THEN 1 ELSE 0) + (t.day - 1)
      secs == ((t.hour * 60) + t.minute - t.offset) * 60 + t.second
  IN  <<days + (secs \div 86400), secs % 86400>>

\* time.Time.Equal: the two denote the same instant, whatever their zones
Equal(t, u) == Instant(t) = Instant(u)

\* the result of time.Parse
Parsed(t) == [ok |-> TRUE, t |-> t]
ParseError == [ok |-> FALSE, t |-> ZeroTime]

\* time.Parse(time.RFC3339, value), layout "2006-01-02T15:04:05Z07:00", for a
\* value without a fraction of a second: the year takes four digits, month,
\* day, minute and second two digits each, the hour one digit or two, the
\* zone is "Z" or a sign, two digits, a colon and two digits; then month,
\* day, hour, minute and second are checked against their ranges
TimeParse(value) ==
  LET n == Len(value)
      hl == IF n >= 13 /\ value[13] \in Digits THEN 2 ELSE 1
      digits(lo, hi) == hi <= n /\ \A i \in lo..hi : value[i] \in Digits
      is(i, c) == i <= n /\ value[i] = c
      num(lo, hi) == DigitsValue(SubSeq(value, lo, hi), 0)
      z == 18 + hl
      shaped == /\ digits(1, 4) /\ is(5, "-") /\ digits(6, 7) /\ is(8, "-") /\ digits(9, 10)
                /\ is(11, "T") /\ digits(12, 11 + hl) /\ is(12 + hl, ":")
                /\ digits(13 + hl, 14 + hl) /\ is(15 + hl, ":") /\ digits(16 + hl, 17 + hl)
                /\ \/ n = z /\ value[z] = "Z"
                   \/ /\ n = z + 5 /\ value[z] \in {"+", "-"} /\ digits(z + 1, z + 2)
                      /\ value[z + 3] = ":" /\ digits(z + 4, z + 5)
  IN  IF ~shaped THEN ParseError
      ELSE IF \/ num(6, 7) < 1 \/ num(6, 7) > 12
              \/ num(12, 11 + hl) >= 24
              \/ num(13 + hl, 14 + hl) >= 60
              \/ num(16 + hl, 17 + hl) >= 60
              \/ num(9, 10) < 1 \/ num(9, 10) > daysIn(num(6, 7), num(1, 4))
           THEN ParseError
      ELSE Parsed([year |-> num(1, 4), month |-> num(6, 7), day |-> num(9, 10),
                   hour |-> num(12, 11 + hl), minute |-> num(13 + hl, 14 + hl),
                   second |-> num(16 + hl, 17 + hl),
                   offset |-> IF value[z] = "Z" THEN 0
                              ELSE (IF value[z] = "-" THEN 0 - 1 ELSE 1)
                                   * (num(z + 1, z + 2) * 60 + num(z + 4, z + 5))])

\* json.Marshal of a string: the text between double quotes, a double quote
\* or a backslash in it written after a backslash
JsonQuote(s) ==
  <<"\"">> \o Concat([i \in 1..Len(s) |-> IF s[i] \in {"\"", "\\"} THEN <<"\\", s[i]>>
                                           ELSE <<s[i]>>], 1, Len(s)) \o <<"\"">>

\* data without the JSON white space around it
JsonTrim(data) ==
  LET at == {i \in 1..Len(data) : data[i] # " "}
  IN  IF at = {} THEN <<>>
      ELSE SubSeq(data, CHOOSE i \in at : \A j \in at : i <= j,
                        CHOOSE i \in at : \A j \in at : j <= i)

\* json.Unmarshal(data, &timeStr) for a string timeStr that holds "" and data
\* without escape sequences: a string literal is stored without its quotes,
\* null stores nothing and is no error, a value of another type and text
\* that is not JSON are errors
JsonUnmarshalString(data) ==
  LET d == JsonTrim(data)
      n == Len(d)
  IN  IF d = <<"n","u","l","l">> THEN [err |-> NoError, s |-> <<>>]
      ELSE IF n >= 2 /\ d[1] = "\"" /\ d[n] = "\""
              /\ \A i \in 2..(n - 1) : d[i] \notin {"\"", "\\"}
           THEN [err |-> NoError, s |-> SubSeq(d, 2, n - 1)]
      ELSE [err |-> LibraryError("json"), s |-> <<>>]

\* Time.MarshalJSON: json.Marshal(time.Time(t).Format(time.RFC3339))
TimeMarshalJSON(t) == [data |-> JsonQuote(TimeString(t)), err |-> NoError]

\* (t *Time).UnmarshalJSON(data): the receiver after the call and the error;
\* the receiver is assigned only after json.Unmarshal and time.Parse succeeded
TimeUnmarshalJSON(t, data) ==
  IF JsonUnmarshalString(data).err # NoError
  THEN [t |-> t, err |-> JsonUnmarshalString(data).err]
  ELSE IF ~TimeParse(JsonUnmarshalString(data).s).ok
       THEN [t |-> t, err |-> LibraryError("parse")]
  ELSE [t |-> TimeParse(JsonUnmarshalString(data).s).t, err |-> NoError]

\* the text an operation makes of the value v of an options field
FormatValue(format, v) ==
  CASE format = "%s" -> v
    [] format = "%d" -> FormatInt(v)
    [] format = "%t" -> FormatBool(v)
    [] format = "String()" -> TimeString(v)

\* req.SetQueryParam(key, value) on the query parameters q of a request, a
\* set of <<key, value>>: the value replaces any earlier one of that key
SetQueryParam(q, key, value) == {x \in q : x[1] # key} \cup {<<key, value>>}

\* a buildQueryParams that sends Limit as "per_page"
buildQueryParamsPerPage(q, opt) ==
  IF opt = None THEN q
  ELSE LET o == opt[1]
           q1 == IF o["Page"] # None
                 THEN SetQueryParam(q, "page", FormatInt(o["Page"][1])) ELSE q
           q2 == IF o["Limit"] # None
                 THEN SetQueryParam(q1, "per_page", FormatInt(o["Limit"][1])) ELSE q1
           q3 == IF o["Sort"] # None
                 THEN SetQueryParam(q2, "sort", o["Sort"][1]) ELSE q2
           q4 == IF o["Order"] # None
                 THEN SetQueryParam(q3, "order", o["Order"][1]) ELSE q3
       IN  IF o["Query"] # None
           THEN SetQueryParam(q4, "query", o["Query"][1]) ELSE q4

\* buildQueryParams(req, opt) on a request with the query parameters q; opt
\* is None for the nil pointer, else Some of the ListOptions it points to
buildQueryParams(q, opt) ==
  IF opt = None THEN q
  ELSE LET o == opt[1]
           q1 == IF o["Page"] # None
                 THEN SetQueryParam(q, "page", FormatInt(o["Page"][1])) ELSE q
           q2 == IF o["Limit"] # None
                 THEN SetQueryParam(q1, "limit", FormatInt(o["Limit"][1])) ELSE q1
           q3 == IF o["Sort"] # None
                 THEN SetQueryParam(q2, "sort", o["Sort"][1]) ELSE q2
           q4 == IF o["Order"] # None
                 THEN SetQueryParam(q3, "order", o["Order"][1]) ELSE q3
       IN  IF o["Query"] # None
           THEN SetQueryParam(q4, "query", o["Query"][1]) ELSE q4

\* opt.ListOptions of an options struct o that embeds ListOptions
EmbeddedOf(o) ==
  [f \in {"Page", "Limit", "Sort", "Order", "Query"} |-> o["ListOptions." \o f]]

\* the blocks "if opt.F != nil { req.SetQueryParam(...) }" of an operation,
\* in the order of the code
RECURSIVE SetQueryParams(_, _, _)
SetQueryParams(q, o, sets) ==
  IF sets = <<>> THEN q
  ELSE SetQueryParams(
         IF o[Head(sets).field] # None
         THEN SetQueryParam(q, Head(sets).param,
                            FormatValue(Head(sets).format, o[Head(sets).field][1]))
         ELSE q,
         o, Tail(sets))

\* the operation reads a field of its options struct through a nil pointer
NilDereference(options, opt) ==
  /\ opt = None
  /\ ~options.guarded
  /\ (options.sets # <<>> \/ options.common = "embedded")

\* the query parameters an operation puts on its request when called with opt
Query(options, opt) ==
  IF opt = None THEN {}
  ELSE SetQueryParams(
         CASE options.common = "whole" -> buildQueryParams({}, opt)
           [] options.common = "embedded" -> buildQueryParams({}, Some(EmbeddedOf(opt[1])))
           [] options.common = "none" -> {},
         opt[1], options.sets)

\* a value of the interface type any: the dynamic type and the pointer it
\* holds; only the literal nil is the nil interface
Interface(type, ptr) == [type |-> type, ptr |-> ptr]

NilInterface == Interface("", None)

\* the operations with a deleteID *string argument
DeleteOperations == {"Repositories.DeleteRepository", "Spaces.DeleteSpace"}

\* var payload *DeleteRepositoryRequest
\* if deleteID != nil { payload = &DeleteRepositoryRequest{DeleteID: deleteID} }
DeletePayload(deleteID) ==
  IF deleteID # None THEN Some([DeleteID |-> deleteID]) ELSE None

\* the body argument op hands to its helper when called with the pointer
\* argument opt (deleteID for the two delete operations): the literal nil,
\* the payload pointer, or the value or reader the caller gave
BodyArgument(op, opt) ==
  CASE op.body \in {"nil", "none"} -> NilInterface
    [] op.name \in DeleteOperations -> Interface("*DeleteRequest", DeletePayload(opt))
    [] OTHER -> Interface(op.body, Some(op.body))

\* the bytes req/v3 makes of a body (encoding/json Marshal): null for a nil
\* pointer, for a delete payload the object with "delete_id", else what the
\* caller's value or reader holds
JsonMarshal(body) ==
  IF body.ptr = None THEN [json |-> "null", delete_id |-> None]
  ELSE IF body.type = "*DeleteRequest"
  THEN [json |-> "object", delete_id |-> body.ptr[1].DeleteID]
  ELSE [json |-> body.type, delete_id |-> None]

\* a body without bytes
NoBody == [json |-> "", delete_id |-> None]

\* if body != nil { req.SetBodyJsonMarshal(body) }: the body of the request
AttachedBody(body) ==
  IF body # NilInterface THEN JsonMarshal(body) ELSE NoBody

\* a request of c.client.R() as op builds it when called with args and the
\* pointer argument opt (its options, deleteID for the delete operations), to
\* be sent to target: the helpers attach a body that is not the literal nil
\* and a result destination that is not nil
Request(c, op, args, opt, target) ==
  [name |-> op.name,
   args |-> args,
   opt |-> opt,
   query |-> Query(op.options, opt),
   via |-> op.via,
   method |-> IF op.via = "direct" THEN op.method ELSE Method(op.via),
   urlOK |-> target.ok,
   url |-> target.url,
   httpClient |-> c.client.httpClient,
   bearer |-> c.client.BearerToken,
   result |-> op.result,
   hasBody |-> op.body \in {"value", "reader"},
   body |-> AttachedBody(BodyArgument(op, opt)),
   data |-> op.data,
   checks |-> op.checks,
   paginates |-> op.paginates,
   attempt |-> 0]

\* the request of op for path: the helpers give req/v3 the absolute URL of
\* buildFullURL, a direct operation the relative path
NewRequest(c, op, args, opt, path) ==
  Request(c, op, args, opt,
          RequestURL(c.client.BaseURL,
                     IF op.via = "direct" THEN path ELSE buildFullURL(c.baseURL, path)))

\* what an operation hands back: the *Response, the error, the data of a
\* three-valued operation and the caller's result destination after the call
Return(resp, err, data, dest) == [resp |-> resp, err |-> err, data |-> data, dest |-> dest]

NoReturn == Return(None, NoError, None, ZeroValue)

\* Client.Get after the round trip that ended with response r and error err
GetReturn(r, err, dest) ==
  IF err # "nil" THEN Return(None, LibraryError(err), None, dest)
  ELSE IF checkResponse(r) # NoError THEN Return(Some(Response(r)), checkResponse(r), None, dest)
  ELSE Return(Some(parsePaginationHeaders(Response(r))), NoError, None, dest)

\* Client.Post, Put, Patch, Delete and DeleteWithResponse after the round trip
VerbReturn(r, err, dest) ==
  IF err # "nil" THEN Return(None, LibraryError(err), None, dest)
  ELSE IF checkResponse(r) # NoError THEN Return(Some(Response(r)), checkResponse(r), None, dest)
  ELSE Return(Some(Response(r)), NoError, None, dest)

\* Client.performListRequest after the round trip
performListRequestReturn(r, err, dest) ==
  IF err # "nil" THEN Return(Some(Response(r)), LibraryError(err), None, dest)
  ELSE IF checkResponse(r) # NoError THEN Return(Some(Response(r)), checkResponse(r), None, dest)
  ELSE Return(Some(parsePaginationHeaders(Response(r))), NoError, None, dest)

\* a direct operation that never parses the pagination headers
DirectReturnUnparsed(request, r, err, dest) ==
  IF err # "nil" THEN Return(Some(Response(r)), LibraryError(err), None, dest)
  ELSE IF request.checks /\ checkResponse(r) # NoError
  THEN Return(Some(Response(r)), checkResponse(r), None, dest)
  ELSE Return(Some(Response(r)), NoError, None, dest)

\* an operation that built its request on client.client.R(), after the round
\* trip: every one of them returns &Response{Response: resp} with the library
\* error, calls checkResponse, and the list operations parse the pagination
\* headers
DirectReturn(request, r, err, dest) ==
  IF err # "nil" THEN Return(Some(Response(r)), LibraryError(err), None, dest)
  ELSE IF request.checks /\ checkResponse(r) # NoError
  THEN Return(Some(Response(r)), checkResponse(r), None, dest)
  ELSE IF request.paginates
  THEN Return(Some(parsePaginationHeaders(Response(r))), NoError, None, dest)
  ELSE Return(Some(Response(r)), NoError, None, dest)

\* the helper or direct code of the request, after the round trip
HelperReturn(request, r, err, dest) ==
  CASE request.via = "Get" -> GetReturn(r, err, dest)
    [] request.via \in {"Post", "Put", "Patch", "Delete", "DeleteWithResponse"} ->
         VerbReturn(r, err, dest)
    [] request.via = "performListRequest" -> performListRequestReturn(r, err, dest)
    [] request.via = "direct" -> DirectReturn(request, r, err, dest)

\* a service method that returns its decoded variable with an error too
ServiceReturnWithData(request, h) ==
  IF request.data = "none" THEN h
  ELSE IF request.data = "result" THEN [h EXCEPT !.data = Some(h.dest)]
  ELSE IF h.resp = None THEN h
  ELSE [h EXCEPT !.data = Some(h.resp[1].Response.body)]

\* the service method around the helper: with an error it returns the zero
\* value of its data (None: nil, and "" for GetCommitDiff), otherwise its
\* decoded variable (the body stream for GetCiCache, the body text for
\* GetCommitDiff)
ServiceReturn(request, h) ==
  IF request.data = "none" \/ h.err # NoError THEN h
  ELSE IF request.data = "result" THEN [h EXCEPT !.data = Some(h.dest)]
  ELSE [h EXCEPT !.data = Some(h.resp[1].Response.body)]

(***************************************************************************)
(* State                                                                   *)
(***************************************************************************)

VARIABLES
  nclients,   \* number of Clients NewClient has allocated
  newArgs,    \* the arguments of the last NewClient call
  newErr,     \* whether the last NewClient call returned an error
  client,     \* the Client the last NewClient call returned, None without one
  pc,         \* "idle", "sending" (inside req/v3), "done" or "panic"
  request,    \* the request of the operation in progress or just finished
  served,     \* the status of each round trip of that operation, in order
              \* (0: no response)
  last,       \* the *req.Response of its last round trip, None before it
  ret,        \* what the operation returned
  ctx,        \* the context the caller passes: "live", or "done" once it is
              \* cancelled or past its deadline
  loop,       \* the caller's page-walking loop: its state ("off", "running",
              \* "done" after the last page, "error") and its variable page
  server,     \* a server with pages: their number (0: no such server) and
              \* the page of each request it answered, in order
  callers,    \* the goroutines that share the Client: which one is running
              \* (0: there is only one), what each of them called, and the
              \* local variables of the one that waits (pc, request,
              \* served, last, ret and ctx are those of the running one)
  jsonTime    \* a Time and a receiver in the hands of a caller: the Time t,
              \* the receiver u, the last method called on them, the data
              \* it was given or returned, its error and the receiver
              \* before it

vars ==
  <<nclients, newArgs, newErr, client, pc, request, served, last, ret, ctx, loop, server,
    callers, jsonTime>>

\* the value of request while no operation is in progress
NoRequest ==
  NewRequest(NewClientStruct(0, ""), HelperCall("Get", None, "none"), <<>>, None, <<>>)

\* no page-walking loop is running
NoLoop == [state |-> "off", page |-> 0]

\* a loop that goes on to the following page when NextPage is nil
LoopAfterWithoutBreak(l, r) ==
  IF l.state # "running" THEN l
  ELSE IF r.err # NoError THEN [l EXCEPT !.state = "error"]
  ELSE IF r.resp[1].NextPage = None THEN [l EXCEPT !.page = @ + 1]
  ELSE [l EXCEPT !.page = r.resp[1].NextPage[1]]

\* the body of the documented loop after the call returned ret:
\*   if err != nil { break }; if resp.NextPage == nil { break }
\*   page = *resp.NextPage
LoopAfter(l, r) ==
  IF l.state # "running" THEN l
  ELSE IF r.err # NoError THEN [l EXCEPT !.state = "error"]
  ELSE IF r.resp[1].NextPage = None THEN [l EXCEPT !.state = "done"]
  ELSE [l EXCEPT !.page = r.resp[1].NextPage[1]]

\* a caller that holds no Time
NoTime ==
  [t |-> ZeroTime, u |-> ZeroTime, did |-> "", data |-> <<>>, err |-> NoError,
   was |-> ZeroTime]

\* a single caller
NoCallers == [running |-> 0, calls |-> <<None, None>>, parked |-> None]

\* the local variables of a goroutine inside or between its calls
Local(p, req, srv, l, r, c) ==
  [pc |-> p, request |-> req, served |-> srv, last |-> l, ret |-> r, ctx |-> c]

\* the running goroutine calls op with args and opt: these are its own
\* local values
Noted(cs, op, args, opt) ==
  IF cs.running = 0 THEN cs
  ELSE [cs EXCEPT !.calls[cs.running] = Some([op |-> op, args |-> args, opt |-> opt])]

\* the callers when c.client.R() hands every caller one and the same
\* request: the request req just built replaces the one the waiting
\* goroutine is sending
OnSharedRequest(cs, req) ==
  IF cs.parked # None /\ cs.parked[1].pc = "sending"
  THEN [cs EXCEPT !.parked = Some([cs.parked[1] EXCEPT !.request = req])]
  ELSE cs

\* no server with pages
NoServer == [pages |-> 0, requested |-> <<>>]

\* the page a request asks for: its query parameter page, page 1 without one
RequestedPage(q) ==
  IF \E x \in q : x[1] = "page"
  THEN Atoi((CHOOSE x \in q : x[1] = "page")[2]).v
  ELSE 1

\* the server notes the page of every request it answers
Logged(srv, q, r) ==
  IF srv.pages > 0 /\ r.received
  THEN [srv EXCEPT !.requested = Append(@, RequestedPage(q))]
  ELSE srv

(***************************************************************************)
(* Bounds                                                                  *)
(***************************************************************************)

\* the largest retry count given to WithRetry
MaxRetry == 2

\* the largest number of Clients constructed in one behaviour
MaxClients == 2

\* the largest number of options given to NewClient
MaxOptions == 2

\* the largest number of pages of a server
MaxPages == 3

\* the largest number of answered requests in a sequence of operations
MaxCalls == 2

(***************************************************************************)
(* Actions                                                                 *)
(***************************************************************************)

\* NewClient(token, options...)
NewClient(token, options) ==
  /\ pc = "idle"
  /\ nclients < MaxClients
  /\ nclients' = nclients + 1
  /\ newArgs' = [token |-> token, options |-> options]
  /\ \E r \in {NewClientResult(nclients + 1, token, options)} :
       newErr' = r.err /\ client' = r.c
  /\ UNCHANGED <<pc, request, served, last, ret, ctx, loop, server, callers, jsonTime>>

\* client.client.SetCommonRetryCondition(func(resp, err) bool {
\*   return resp.StatusCode >= 500 })
SetCommonRetryCondition ==
  /\ pc = "idle"
  /\ client # None
  /\ client[1].client.RetryCondition = "default"
  /\ client' = Some([client[1] EXCEPT !.client.RetryCondition = "status>=500"])
  /\ UNCHANGED <<nclients, newArgs, newErr, pc, request, served, last, ret, ctx, loop, server, callers, jsonTime>>

\* an operation that sets the URL of its request as BaseURL of the req client
CallSettingBaseURL(op, args, opt) ==
  /\ pc = "idle"
  /\ client # None
  /\ request' = NewRequest(client[1], op, args, opt, Sprintf(op.format, args))
  /\ served' = <<>>
  /\ last' = None
  /\ ret' = NoReturn
  /\ pc' = IF NilDereference(op.options, opt) THEN "panic" ELSE "sending"
  /\ client' = Some([client[1] EXCEPT !.client.BaseURL = request'.url])
  /\ callers' = Noted(callers, op, args, opt)
  /\ UNCHANGED <<nclients, newArgs, newErr, ctx, loop, server, jsonTime>>

\* an operation that builds its request on a request object all callers of
\* the Client share
CallOnSharedRequest(op, args, opt) ==
  /\ pc = "idle"
  /\ client # None
  /\ request' = NewRequest(client[1], op, args, opt, Sprintf(op.format, args))
  /\ served' = <<>>
  /\ last' = None
  /\ ret' = NoReturn
  /\ pc' = IF NilDereference(op.options, opt) THEN "panic" ELSE "sending"
  /\ callers' = OnSharedRequest(Noted(callers, op, args, opt), request')
  /\ UNCHANGED <<nclients, newArgs, newErr, client, ctx, loop, server, jsonTime>>

\* an operation called with args and the options pointer opt builds its
\* request and hands it to req/v3; reading a field through a nil options
\* pointer panics before anything is sent
Call(op, args, opt) ==
  /\ pc = "idle"
  /\ client # None
  /\ request' = NewRequest(client[1], op, args, opt, Sprintf(op.format, args))
  /\ served' = <<>>
  /\ last' = None
  /\ ret' = NoReturn
  /\ pc' = IF NilDereference(op.options, opt) THEN "panic" ELSE "sending"
  /\ callers' = Noted(callers, op, args, opt)
  /\ UNCHANGED <<nclients, newArgs, newErr, client, ctx, loop, server, jsonTime>>

\* Client.Get(ctx, path, result) and the operations built on it
Get(op, args, opt) == op.via = "Get" /\ Call(op, args, opt)

\* Client.Post(ctx, path, body, result) and the operations built on it
Post(op, args, opt) == op.via = "Post" /\ Call(op, args, opt)

\* Client.Put(ctx, path, body, result) and the operations built on it
Put(op, args, opt) == op.via = "Put" /\ Call(op, args, opt)

\* Client.Patch(ctx, path, body, result) and the operations built on it
Patch(op, args, opt) == op.via = "Patch" /\ Call(op, args, opt)

\* Client.Delete(ctx, path, body) and the operations built on it
Delete(op, args, opt) == op.via = "Delete" /\ Call(op, args, opt)

\* Client.DeleteWithResponse(ctx, path, body, result) and the operations built on it
DeleteWithResponse(op, args, opt) == op.via = "DeleteWithResponse" /\ Call(op, args, opt)

\* Client.performListRequest(ctx, path, opt, result) and the operations built on it
performListRequest(op, args, opt) == op.via = "performListRequest" /\ Call(op, args, opt)

\* an operation that builds its request on s.client.client.R()
Direct(op, args, opt) == op.via = "direct" /\ Call(op, args, opt)

\* the retry condition of the client applied to the round trip: the default
\* of req/v3 retries on an error, the condition set by
\* SetCommonRetryCondition reads resp.StatusCode
NeedRetry(c, r, err) ==
  IF c.client.RetryCondition = "default" THEN err # "nil"
  ELSE r.StatusCode >= 500

\* one round trip of req/v3 for the request in progress, answered by
\* outcome: req/v3 retries while the retry count set by SetCommonRetryCount
\* allows (a negative count allows any number) and the retry condition asks
\* for it, otherwise the operation returns; reading resp.StatusCode of a
\* round trip without response panics; no response arrives once the context
\* of the request is done
RoundTrip(outcome) ==
  LET c == client[1]
      r == ReqResponse(Len(served) + 1, Arrives(ctx, outcome))
      err == RoundTripError(request, r)
      dest == DestAfter(request, r, ret.dest)
      canRetry == /\ c.client.RetryCount # 0
                  /\ (c.client.RetryCount < 0 \/ request.attempt < c.client.RetryCount)
  IN  /\ pc = "sending"
      /\ request.urlOK
      /\ served' = Append(served, IF r.received THEN r.StatusCode ELSE 0)
      /\ last' = Some(r)
      /\ IF canRetry /\ c.client.RetryCondition # "default" /\ ~r.received
         THEN /\ pc' = "panic"
              /\ UNCHANGED <<request, ret>>
         ELSE IF canRetry /\ NeedRetry(c, r, err)
         THEN /\ pc' = "sending"
              /\ request' = [request EXCEPT !.attempt = @ + 1]
              /\ ret' = [ret EXCEPT !.dest = dest]
         ELSE /\ pc' = "done"
              /\ ret' = ServiceReturn(request, HelperReturn(request, r, err, dest))
              /\ UNCHANGED request
      /\ server' = Logged(server, request.query, r)
      /\ UNCHANGED <<nclients, newArgs, newErr, client, ctx, loop, callers, jsonTime>>

\* the caller is through with what the operation returned: a page-walking
\* loop goes on or ends, and the next call gets a context of its own
Continue ==
  /\ pc = "done"
  /\ pc' = "idle"
  /\ request' = NoRequest
  /\ served' = <<>>
  /\ last' = None
  /\ ret' = NoReturn
  /\ ctx' = "live"
  /\ loop' = LoopAfter(loop, ret)
  /\ UNCHANGED <<nclients, newArgs, newErr, client, server, callers, jsonTime>>

\* the context passed to the operation is cancelled, or its deadline
\* expires, before the call or while the request is on its way
Cancel ==
  /\ pc \in {"idle", "sending"}
  /\ client # None
  /\ ctx = "live"
  /\ ctx' = "done"
  /\ UNCHANGED <<nclients, newArgs, newErr, client, pc, request, served, last, ret, loop, server, callers, jsonTime>>

\* the scheduler lets the other goroutine run: the local variables of the
\* running one are set aside and those of the waiting one come back
Switch ==
  /\ callers.running # 0
  /\ callers.parked # None
  /\ pc # "panic"
  /\ callers' = [callers EXCEPT !.running = 3 - @,
                                !.parked = Some(Local(pc, request, served, last, ret, ctx))]
  /\ pc' = callers.parked[1].pc
  /\ request' = callers.parked[1].request
  /\ served' = callers.parked[1].served
  /\ last' = callers.parked[1].last
  /\ ret' = callers.parked[1].ret
  /\ ctx' = callers.parked[1].ctx
  /\ UNCHANGED <<nclients, newArgs, newErr, client, loop, server, jsonTime>>

\* data, err := t.MarshalJSON() on the Time t of the caller
MarshalJSON ==
  /\ jsonTime' = [jsonTime EXCEPT !.did = "MarshalJSON",
                                  !.data = TimeMarshalJSON(jsonTime.t).data,
                                  !.err = TimeMarshalJSON(jsonTime.t).err,
                                  !.was = jsonTime.u]
  /\ UNCHANGED <<nclients, newArgs, newErr, client, pc, request, served, last, ret, ctx,
                 loop, server, callers>>

\* err := u.UnmarshalJSON(data) on the receiver u of the caller
UnmarshalJSON(data) ==
  /\ jsonTime' = [jsonTime EXCEPT !.did = "UnmarshalJSON",
                                  !.data = data,
                                  !.u = TimeUnmarshalJSON(jsonTime.u, data).t,
                                  !.err = TimeUnmarshalJSON(jsonTime.u, data).err,
                                  !.was = jsonTime.u]
  /\ UNCHANGED <<nclients, newArgs, newErr, client, pc, request, served, last, ret, ctx,
                 loop, server, callers>>

(***************************************************************************)
(* Inputs                                                                  *)
(***************************************************************************)

\* argument i of format is an integer (%d)
IsIntArg(format, i) == \E k \in 1..Len(format) : format[k].i = i /\ format[k].kind = "%d"

\* the number of arguments format expects
NArgs(format) == Cardinality({format[k].i : k \in 1..Len(format)} \ {0})

\* the argument lists of format, strings drawn from S and integers from I
RECURSIVE ArgTuples(_, _, _, _)
ArgTuples(format, n, S, I) ==
  IF n = 0 THEN {<<>>}
  ELSE {Append(t, v) : t \in ArgTuples(format, n - 1, S, I),
                       v \in IF IsIntArg(format, n) THEN I ELSE S}

Args(op, S, I) == ArgTuples(op.format, NArgs(op.format), S, I)

\* the options pointer &T{} of op, every field nil; nil for an operation
\* without options
ZeroOptions(op) ==
  IF op.options.type = "" THEN None
  ELSE Some([f \in {op.options.fields[i].name : i \in 1..Len(op.options.fields)} |-> None])

\* "test-token", the token of the tests
TestToken == "test-token"

\* "https://custom.gitness.com/", the base URL of TestNewClientWithOptions
CustomBaseURL ==
  <<"h","t","t","p","s",":","/","/","c","u","s","t","o","m",".","g","i","t","n","e","s","s",".","c","o","m","/">>

\* the same URL written with an upper-case scheme
UpperCaseBaseURL ==
  <<"H","T","T","P","S",":","/","/","c","u","s","t","o","m",".","g","i","t","n","e","s","s",".","c","o","m","/">>

\* "http://127.0.0.1/", a test server
ServerBaseURL ==
  <<"h","t","t","p",":","/","/","1","2","7",".","0",".","0",".","1","/">>

\* ":custom", which url.Parse rejects (missing protocol scheme)
BadBaseURL == <<":","c","u","s","t","o","m">>

OptBaseURL(u) == [opt |-> "WithBaseURL", baseURL |-> u]

OptTimeout(t) == [opt |-> "WithTimeout", timeout |-> t]

OptDebug == [opt |-> "WithDebug"]

OptHTTPClient == [opt |-> "WithHTTPClient", httpClient |-> "http.Client"]

OptRetry(n) == [opt |-> "WithRetry", retryCount |-> n]

\* the pagination headers no response carries
NoHeaders == [h \in PaginationHeaders |-> NoHeader]

\* the headers of TestPaginationHeaders
TestHeaders ==
  [h \in PaginationHeaders |->
     HeaderValue(CASE h = "x-page" -> <<"1">>
                   [] h = "x-per-page" -> <<"2">>
                   [] h = "x-next-page" -> <<"2">>
                   [] h = "x-total" -> <<"6">>
                   [] h = "x-total-pages" -> <<"3">>)]

\* the error body of TestErrorHandling
TestErrorBody == Body("object", "Bad Request", "Invalid input provided")

\* a round trip that ends without a response
TransportFailure ==
  [kind |-> "transport", status |-> 0, header |-> NoHeaders, body |-> EmptyBody]

\* the responses with a status of Statuses, headers of Headers and a body of
\* Bodies; 204 and 304 carry no body
Responses(Statuses, Headers, Bodies) ==
  UNION {{[kind |-> "response", status |-> s, header |-> h, body |-> b] :
            h \in Headers,
            b \in {x \in Bodies : s \in {204, 304} => x = EmptyBody}} :
         s \in Statuses}

\* "test", the path and identifier of the tests
TestPath == <<"t","e","s","t">>

\* the Client helpers used directly, as the tests do
HelperCalls ==
  {HelperCall("Get", r, "none") : r \in {None, Some("struct"), Some("slice")}}
  \cup {HelperCall(v, r, b) : v \in {"Post", "Put", "Patch", "DeleteWithResponse"},
                              r \in {None, Some("struct")}, b \in {"nil", "value"}}
  \cup {HelperCall("Delete", None, b) : b \in {"nil", "value"}}
  \cup {HelperCall("performListRequest", Some("slice"), "none")}

(***************************************************************************)
(* Specification of the operations: a Client built by NewClient, with or   *)
(* without WithRetry, runs any sequence of operations against a server     *)
(* that answers each round trip with any status and body.                  *)
(***************************************************************************)

SpecOptions == {<<>>} \cup {<<OptRetry(n)>> : n \in (0 - 1)..MaxRetry}

SpecOutcomes ==
  {TransportFailure}
  \cup Responses({200, 201, 204, 304, 404, 500}, {TestHeaders},
                 {EmptyBody, GarbageBody, ArrayBody, ObjectBody})

SpecOps == Operations \cup HelperCalls

Init ==
  /\ nclients = 1
  /\ \E options \in SpecOptions :
       /\ newArgs = [token |-> TestToken, options |-> options]
       /\ client = NewClientResult(1, TestToken, options).c
  /\ newErr = FALSE
  /\ pc = "idle"
  /\ request = NoRequest
  /\ served = <<>>
  /\ last = None
  /\ ret = NoReturn
  /\ ctx = "live"
  /\ loop = NoLoop
  /\ server = NoServer
  /\ callers = NoCallers
  /\ jsonTime = NoTime

Next ==
  \/ SetCommonRetryCondition
  \/ \E op \in SpecOps : \E args \in Args(op, {TestPath}, {1}) : Get(op, args, ZeroOptions(op))
  \/ \E op \in SpecOps : \E args \in Args(op, {TestPath}, {1}) : Post(op, args, ZeroOptions(op))
  \/ \E op \in SpecOps : \E args \in Args(op, {TestPath}, {1}) : Put(op, args, ZeroOptions(op))
  \/ \E op \in SpecOps : \E args \in Args(op, {TestPath}, {1}) : Patch(op, args, ZeroOptions(op))
  \/ \E op \in SpecOps : \E args \in Args(op, {TestPath}, {1}) : Delete(op, args, ZeroOptions(op))
  \/ \E op \in SpecOps : \E args \in Args(op, {TestPath}, {1}) : DeleteWithResponse(op, args, ZeroOptions(op))
  \/ \E op \in SpecOps : \E args \in Args(op, {TestPath}, {1}) : performListRequest(op, args, ZeroOptions(op))
  \/ \E op \in SpecOps : \E args \in Args(op, {TestPath}, {1}) : Direct(op, args, ZeroOptions(op))
  \/ \E outcome \in SpecOutcomes : RoundTrip(outcome)
  \/ Continue

Spec == Init /\ [][Next]_vars

\* the operation in progress has returned
Done == pc = "done"

\* its last round trip received an HTTP response
Received == last # None /\ last[1].received

\* ... with a status in 200..299
Received2xx == Received /\ last[1].StatusCode \in 200..299

\* ... whose body req/v3 could not decode into the result destination the
\* operation passed (no decoding happens without a destination or on 204)
Undecodable ==
  /\ Received2xx
  /\ request.result # None
  /\ last[1].StatusCode # 204
  /\ last[1].body.kind \in {"empty", "garbage"}
     \/ (last[1].body.kind = "array" /\ request.result = Some("struct"))
     \/ (last[1].body.kind = "object" /\ request.result = Some("slice"))

\* C1 (as the code has it): for every helper and every service operation,
\* the returned error is nil if and only if a response with status 200-299
\* was received and its body, when the operation decodes one, could be
\* decoded; for any other received status the error is an *ErrorResponse
\* whose Response is that response; without a response, or with a 2xx body
\* that cannot be decoded, the error is not an *ErrorResponse
C1_ErrorIffNot2xxOrUndecodable ==
  Done =>
    /\ ret.err = NoError <=> (Received2xx /\ ~Undecodable)
    /\ (Received /\ ~Received2xx =>
          /\ ret.err.kind = "ErrorResponse"
          /\ ret.err.Response = last
          /\ ret.resp # None
          /\ ret.resp[1].Response = last[1])
    /\ (~Received \/ Undecodable => ret.err.kind \notin {"nil", "ErrorResponse"})

\* a service operation got a 404 and returned an *ErrorResponse
C1_Witness ==
  /\ Done
  /\ request.name = "Repositories.GetRepository"
  /\ last[1].StatusCode = 404
  /\ ret.err.kind = "ErrorResponse"
  /\ ret.err.Response = last

\* C1 as stated: the returned error is nil if and only if a response with
\* status 200-299 was received
C1_AsStated == Done => (ret.err = NoError <=> Received2xx)

\* the HTTP method each verb helper stands for
VerbOf(via) ==
  CASE via = "Get" -> "GET"
    [] via = "Post" -> "POST"
    [] via = "Put" -> "PUT"
    [] via = "Patch" -> "PATCH"
    [] via = "Delete" -> "DELETE"
    [] via = "DeleteWithResponse" -> "DELETE"
    [] OTHER -> ""

\* C6: a request made through a verb helper carries the HTTP method of that
\* helper; when its answer is a 2xx with a JSON body that fits the result
\* destination, the helper returns a nil error and the destination holds the
\* body; a 204 without body is a success
C6_VerbAndDecode ==
  (pc # "idle" /\ VerbOf(request.via) # "") =>
    /\ request.method = VerbOf(request.via)
    /\ (Done /\ Received2xx /\ ~Undecodable =>
          /\ ret.err = NoError
          /\ (request.result # None /\ last[1].StatusCode # 204 => ret.dest = last[1].body))
    /\ (Done /\ Received /\ last[1].StatusCode = 204 => ret.err = NoError)

\* Patch got a 200 with a JSON object and decoded it
C6_Witness ==
  /\ Done
  /\ request.name = "Client.Patch"
  /\ request.method = "PATCH"
  /\ last[1].StatusCode = 200
  /\ request.result = Some("struct")
  /\ ret.err = NoError
  /\ ret.dest = ObjectBody

\* the retry count the options of NewClient asked for with WithRetry, 0
\* without one
RECURSIVE AskedRetry(_)
AskedRetry(options) ==
  IF options = <<>> THEN 0
  ELSE IF options[Len(options)].opt = "WithRetry" THEN options[Len(options)].retryCount
  ELSE AskedRetry(SubSeq(options, 1, Len(options) - 1))

\* the client retries on status >= 500, up to a count n > 0 given to WithRetry
RetriesOn5xx ==
  /\ AskedRetry(newArgs.options) > 0
  /\ client[1].client.RetryCondition = "status>=500"

\* C9: with WithRetry(n), n > 0, and the condition status >= 500: a request
\* is repeated only after a 5xx answer and at most n times; k <= n answers
\* 5xx do not end the operation; the first 2xx answer ends it, so that after
\* k answers 5xx and one 2xx the server has seen exactly k + 1 requests, and
\* the operation returns a nil error with the body of that last answer
\* decoded into the result
C9_RetryUntil2xx ==
  (RetriesOn5xx /\ pc \in {"sending", "done"}) =>
    /\ Len(served) <= AskedRetry(newArgs.options) + 1
    /\ \A i \in 1..(Len(served) - 1) : served[i] >= 500
    /\ (served # <<>> /\ Len(served) <= AskedRetry(newArgs.options)
          /\ served[Len(served)] >= 500 => pc = "sending")
    /\ (served # <<>> /\ served[Len(served)] \in 200..299 =>
          /\ Done
          /\ (~Undecodable =>
                /\ ret.err = NoError
                /\ (request.result # None /\ last[1].StatusCode # 204 =>
                      ret.dest = last[1].body)))

\* two answers 500, then a 200 whose body is decoded: three requests
C9_Witness ==
  /\ RetriesOn5xx
  /\ Done
  /\ served = <<500, 500, 200>>
  /\ request.result = Some("struct")
  /\ ret.err = NoError
  /\ ret.dest = ObjectBody

\* no retry count was enabled: no WithRetry option, or WithRetry(n), n <= 0
NoRetryEnabled == AskedRetry(newArgs.options) <= 0

\* C10: unless a retry count was enabled, every operation is one round trip:
\* no request is repeated, whatever the answer, and a non-2xx answer is
\* returned at once as an error
C10_SingleRoundTrip ==
  NoRetryEnabled =>
    /\ Len(served) <= 1
    /\ (served # <<>> => Done)
    /\ (Done => Len(served) = 1)
    /\ (Done /\ Received /\ ~Received2xx => ret.err.kind = "ErrorResponse")
    /\ (Done /\ ~Received => ret.err # NoError)

\* WithRetry(-1) was given, the round trip failed, the operation returned
C10_Witness ==
  /\ newArgs.options = <<OptRetry(0 - 1)>>
  /\ Done
  /\ served = <<0>>
  /\ ret.err.kind = "transport"

\* the operation in progress returns (data, response, error)
ReturnsData == request.data # "none"

\* C22: when a service operation that returns (data, response, error) ends
\* with an error its data is the zero value (nil, "" for GetCommitDiff),
\* nothing partially decoded comes with an error, and when it ends without
\* an error its response is not nil
C22_DataOrError ==
  (Done /\ ReturnsData) =>
    /\ ret.err # NoError => ret.data = None
    /\ ret.err = NoError => ret.resp # None

\* PullRequests.CreatePullRequest was answered 201 with a body that is no
\* JSON: it returns the decode error without data
C22_Witness ==
  /\ Done
  /\ request.name = "PullRequests.CreatePullRequest"
  /\ served = <<201>>
  /\ last[1].body = GarbageBody
  /\ ret.err.kind = "decode"
  /\ ret.data = None

\* C24: after a round trip without HTTP response every way of sending a
\* request returns the same shape: the verb helpers, performListRequest and
\* the operations that build their request themselves all return a nil
\* *Response together with the error
C24_NilResponseOnFailure ==
  (Done /\ ~Received) =>
    /\ ret.err # NoError
    /\ ret.resp = None

(***************************************************************************)
(* Specification of construction: NewClient is called with any token and   *)
(* any list of options, and the Client it returns starts a request.        *)
(***************************************************************************)

\* the lists of at most n different elements of S
RECURSIVE Lists(_, _)
Lists(S, n) ==
  IF n = 0 THEN {<<>>}
  ELSE Lists(S, n - 1)
       \cup UNION {{Append(l, x) : x \in S \ {l[i] : i \in 1..Len(l)}} :
                    l \in Lists(S, n - 1)}

NewTokens == {TestToken, ""}

NewOptions ==
  {OptBaseURL(u) : u \in {CustomBaseURL, UpperCaseBaseURL, BadBaseURL}}
  \cup {OptHTTPClient, OptTimeout(30), OptDebug, OptRetry(1)}

NewOutcomes == {TransportFailure} \cup Responses({200}, {NoHeaders}, {EmptyBody})

InitNew ==
  /\ nclients = 0
  /\ newArgs = [token |-> "", options |-> <<>>]
  /\ newErr = FALSE
  /\ client = None
  /\ pc = "idle"
  /\ request = NoRequest
  /\ served = <<>>
  /\ last = None
  /\ ret = NoReturn
  /\ ctx = "live"
  /\ loop = NoLoop
  /\ server = NoServer
  /\ callers = NoCallers
  /\ jsonTime = NoTime

NextNew ==
  \/ \E token \in NewTokens : \E options \in Lists(NewOptions, MaxOptions) :
       NewClient(token, options)
  \/ Get(HelperCall("Get", None, "none"), <<TestPath>>, None)
  \/ \E outcome \in NewOutcomes : RoundTrip(outcome)
  \/ Continue

SpecNew == InitNew /\ [][NextNew]_vars

\* the Client of the last NewClient call, when it returned one
Returned == nclients > 0 /\ ~newErr

\* C7: when NewClient returns without error, it returns a Client, every
\* service field of that Client is set, and every service points back to
\* that very Client
C7_ServicesPointToClient ==
  Returned =>
    /\ client # None
    /\ client[1].addr = nclients
    /\ \A s \in Services : client[1].services[s] = Some(client[1].addr)

\* a second Client was returned, built with options
C7_Witness ==
  /\ Returned
  /\ nclients = 2
  /\ newArgs.options # <<>>
  /\ client[1].services["Templates"] = Some(2)

\* the base URLs given by the WithBaseURL options of a list, in order
RECURSIVE BaseURLs(_)
BaseURLs(options) ==
  IF options = <<>> THEN <<>>
  ELSE (IF Head(options).opt = "WithBaseURL" THEN <<Head(options).baseURL>> ELSE <<>>)
       \o BaseURLs(Tail(options))

\* the base URL NewClient is asked for: the default, or the one given last
AskedBaseURL(options) ==
  IF BaseURLs(options) = <<>> THEN defaultBaseURL
  ELSE BaseURLs(options)[Len(BaseURLs(options))]

\* C8 (as the code has it): a Client returned by NewClient(token, options)
\* holds the token; its base URL is the default without a WithBaseURL option,
\* otherwise the String() form of the parsed URL of the last WithBaseURL
\* option, wherever that option stands in the list; the API root of the req
\* client is that base URL followed by "api/v1", and a request URL starts
\* with it
C8_TokenAndBaseURL ==
  Returned =>
    /\ client[1].token = newArgs.token
    /\ client[1].client.BearerToken = newArgs.token
    /\ client[1].baseURL = urlString(urlParse(AskedBaseURL(newArgs.options)))
    /\ client[1].client.BaseURL = client[1].baseURL \o apiVersionPath
    /\ (pc # "idle" /\ request.urlOK =>
          HasPrefix(request.url, client[1].baseURL \o apiVersionPath \o <<"/">>))

\* the HTTP client NewClient is asked to use: the default, or the one given
\* by the last WithHTTPClient option
RECURSIVE AskedHTTPClient(_)
AskedHTTPClient(options) ==
  IF options = <<>> THEN defaultHTTPClient
  ELSE IF options[Len(options)].opt = "WithHTTPClient"
  THEN options[Len(options)].httpClient
  ELSE AskedHTTPClient(SubSeq(options, 1, Len(options) - 1))

\* C13: a Client built with WithHTTPClient(h) sends its requests through
\* the supplied HTTP client h rather than through the default one
C13_SuppliedHTTPClientUsed ==
  Returned /\ pc # "idle" => request.httpClient = AskedHTTPClient(newArgs.options)

\* a request was started by a Client built with WithBaseURL in second place
C8_Witness ==
  /\ Returned
  /\ Len(newArgs.options) = 2
  /\ newArgs.options[2] = OptBaseURL(CustomBaseURL)
  /\ newArgs.options[1].opt = "WithRetry"
  /\ pc = "sending"
  /\ client[1].baseURL = CustomBaseURL

\* C8 as stated: without a WithBaseURL option the base URL is the default,
\* and with one WithBaseURL(u) among the options the base URL of the Client
\* equals u
C8_AsStated ==
  Returned =>
    /\ client[1].token = newArgs.token
    /\ (BaseURLs(newArgs.options) = <<>> => client[1].baseURL = defaultBaseURL)
    /\ (Len(BaseURLs(newArgs.options)) = 1 =>
          client[1].baseURL = BaseURLs(newArgs.options)[1])

(***************************************************************************)
(* Specification of error reporting: a Client runs any sequence of         *)
(* operations against a server that answers with any status and with a     *)
(* body whose "message" and "details" are missing, no strings, empty or    *)
(* the texts of TestErrorHandling.                                         *)
(***************************************************************************)

\* the values of "message" in an error body
ErrMessages == {ABSENT, NONSTRING, "", "Bad Request"}

\* the values of "details" in an error body
ErrDetails == {ABSENT, NONSTRING, "", "Invalid input provided"}

ErrBodies ==
  {EmptyBody, GarbageBody, NullBody, ArrayBody}
  \cup {Body("object", m, d) : m \in ErrMessages, d \in ErrDetails}

ErrOutcomes ==
  {TransportFailure}
  \cup Responses({200, 304, 400, 404, 500, 503}, {NoHeaders}, ErrBodies)

InitErr ==
  /\ nclients = 1
  /\ newArgs = [token |-> TestToken, options |-> <<OptBaseURL(ServerBaseURL)>>]
  /\ client = NewClientResult(1, TestToken, <<OptBaseURL(ServerBaseURL)>>).c
  /\ newErr = FALSE
  /\ pc = "idle"
  /\ request = NoRequest
  /\ served = <<>>
  /\ last = None
  /\ ret = NoReturn
  /\ ctx = "live"
  /\ loop = NoLoop
  /\ server = NoServer
  /\ callers = NoCallers
  /\ jsonTime = NoTime

NextErr ==
  \/ \E op \in SpecOps : \E args \in Args(op, {TestPath}, {1}) : Get(op, args, ZeroOptions(op))
  \/ \E op \in SpecOps : \E args \in Args(op, {TestPath}, {1}) : Post(op, args, ZeroOptions(op))
  \/ \E op \in SpecOps : \E args \in Args(op, {TestPath}, {1}) : Put(op, args, ZeroOptions(op))
  \/ \E op \in SpecOps : \E args \in Args(op, {TestPath}, {1}) : Patch(op, args, ZeroOptions(op))
  \/ \E op \in SpecOps : \E args \in Args(op, {TestPath}, {1}) : Delete(op, args, ZeroOptions(op))
  \/ \E op \in SpecOps : \E args \in Args(op, {TestPath}, {1}) : DeleteWithResponse(op, args, ZeroOptions(op))
  \/ \E op \in SpecOps : \E args \in Args(op, {TestPath}, {1}) : performListRequest(op, args, ZeroOptions(op))
  \/ \E op \in SpecOps : \E args \in Args(op, {TestPath}, {1}) : Direct(op, args, ZeroOptions(op))
  \/ \E outcome \in ErrOutcomes : RoundTrip(outcome)
  \/ Continue

SpecErr == InitErr /\ [][NextErr]_vars

\* the operation returned after a response outside 200-299 whose body is a
\* JSON object
ErrorObject == Done /\ Received /\ ~Received2xx /\ last[1].body.kind = "object"

\* C2 (as the code has it): when a response outside 200-299 has a JSON
\* object body, every helper and every service operation returns an
\* *ErrorResponse whose Message is the string field "message" of the body
\* when that string is not empty, and whose Details is the string field
\* "details" of the body, empty when the body has no such string
C2_MessageAndDetails ==
  ErrorObject =>
    /\ ret.err.kind = "ErrorResponse"
    /\ (last[1].body.message \notin {ABSENT, NONSTRING, ""} =>
          ret.err.Message = last[1].body.message)
    /\ ret.err.Details = (IF last[1].body.details \in {ABSENT, NONSTRING}
                          THEN "" ELSE last[1].body.details)

\* TestErrorHandling: client.Get answered by 400 with both fields
C2_Witness ==
  /\ ErrorObject
  /\ request.name = "Client.Get"
  /\ last[1].StatusCode = 400
  /\ last[1].body = TestErrorBody
  /\ ret.err.Message = "Bad Request"
  /\ ret.err.Details = "Invalid input provided"

\* C2 as stated: Message equals the string field "message" of the body,
\* whatever string that is
C2_AsStated ==
  ErrorObject /\ last[1].body.message \notin {ABSENT, NONSTRING} =>
    ret.err.Message = last[1].body.message

\* the operation returned an *ErrorResponse
ErrorResponseReturned == Done /\ ret.err.kind = "ErrorResponse"

\* the body of the response gives checkResponse no Message: it is no JSON
\* object, or its "message" is missing, no string, or empty
NoMessageInBody(r) ==
  \/ r.body.kind # "object"
  \/ r.body.message \in {ABSENT, NONSTRING, ""}

\* C19: the Message of every *ErrorResponse produced by checkResponse is
\* not empty; when the error body is not a JSON object, has no "message",
\* a "message" that is no string, or an empty "message", Message is
\* "HTTP <status code>: <standard status text>" of the received status
C19_MessageNeverEmpty ==
  ErrorResponseReturned =>
    /\ ret.err.Message # ""
    /\ ret.err.Response = last
    /\ (NoMessageInBody(last[1]) =>
          ret.err.Message =
            "HTTP " \o ToString(last[1].StatusCode) \o ": " \o StatusText(last[1].StatusCode))

\* a service operation answered by 404 with a body that is not JSON
C19_Witness ==
  /\ ErrorResponseReturned
  /\ request.name = "Users.GetCurrentUser"
  /\ last[1].StatusCode = 404
  /\ last[1].body = GarbageBody
  /\ ret.err.Message = "HTTP 404: Not Found"

(***************************************************************************)
(* Specification of pagination: a Client runs the list operations and the  *)
(* GET helpers against a server that sets each pagination header to an     *)
(* integer, to a text that is no integer, or not at all.                   *)
(***************************************************************************)

\* the methods called List... of every service
ListOperationNames ==
  {"CiCache.ListCiCache", "Connectors.ListConnectors",
   "Pipelines.ListPipelines", "Pipelines.ListPipelineExecutions",
   "Pipelines.ListPipelineTriggers", "Principals.ListPrincipals",
   "Repositories.ListBranches", "Repositories.ListCommits",
   "Repositories.ListPaths", "PullRequests.ListPullRequests",
   "PullRequests.ListPullRequestActivity",
   "PullRequests.ListPullRequestReviewers",
   "PullRequests.ListPullRequestCombinedReviewers",
   "Repositories.ListTags", "Resource.ListGitIgnoreTemplates",
   "Resource.ListLicenseTemplates", "Webhooks.ListWebhooks",
   "Secrets.ListRepoSecrets", "Secrets.ListSpaceSecrets",
   "Secrets.ListGlobalSecrets", "Gitspaces.ListGitspaces",
   "Gitspaces.ListGitspaceEvents", "Audit.ListAuditLogs",
   "Admin.ListUsers", "Users.ListUserKeys", "Users.ListUserTokens",
   "Users.ListUserMemberships", "Users.ListUserFavorites",
   "Plugins.ListPlugins", "Spaces.ListSpaces", "Spaces.ListRepositories",
   "Checks.ListChecks", "Templates.ListTemplates"}

ListOperations == {op \in Operations : op.name \in ListOperationNames}

\* what a server does with one pagination header: leave it out, set it to
\* "12", set it to "abc"
PagHeaderValues == {NoHeader, HeaderValue(<<"1","2">>), HeaderValue(<<"a","b","c">>)}

PagOutcomes ==
  {TransportFailure}
  \cup Responses({200, 204, 404}, [PaginationHeaders -> PagHeaderValues],
                 {EmptyBody, GarbageBody, ArrayBody, ObjectBody})

PagOps ==
  ListOperations
  \cup {HelperCall("Get", r, "none") : r \in {None, Some("struct"), Some("slice")}}
  \cup {HelperCall("performListRequest", Some("slice"), "none")}

InitPag ==
  /\ nclients = 1
  /\ newArgs = [token |-> TestToken, options |-> <<OptBaseURL(ServerBaseURL)>>]
  /\ client = NewClientResult(1, TestToken, <<OptBaseURL(ServerBaseURL)>>).c
  /\ newErr = FALSE
  /\ pc = "idle"
  /\ request = NoRequest
  /\ served = <<>>
  /\ last = None
  /\ ret = NoReturn
  /\ ctx = "live"
  /\ loop = NoLoop
  /\ server = NoServer
  /\ callers = NoCallers
  /\ jsonTime = NoTime

NextPag ==
  \/ \E op \in PagOps : \E args \in Args(op, {TestPath}, {1}) : Get(op, args, ZeroOptions(op))
  \/ \E op \in PagOps : \E args \in Args(op, {TestPath}, {1}) : performListRequest(op, args, ZeroOptions(op))
  \/ \E op \in PagOps : \E args \in Args(op, {TestPath}, {1}) : Direct(op, args, ZeroOptions(op))
  \/ \E outcome \in PagOutcomes : RoundTrip(outcome)
  \/ Continue

SpecPag == InitPag /\ [][NextPag]_vars

\* the field of Response that belongs to a pagination header
FieldOf(h) ==
  CASE h = "x-page" -> "Page"
    [] h = "x-per-page" -> "PerPage"
    [] h = "x-next-page" -> "NextPage"
    [] h = "x-total" -> "Total"
    [] h = "x-total-pages" -> "TotalPages"

\* header h of the last response is present and holds the integer n
HeaderIs(h, n) ==
  /\ last[1].Header[h].present
  /\ Atoi(last[1].Header[h].val).ok
  /\ Atoi(last[1].Header[h].val).v = n

\* a GET that goes through parsePaginationHeaders (Client.Get,
\* performListRequest, a list operation built on the req client) returned
\* without error
SuccessfulGet ==
  /\ Done
  /\ request.method = "GET"
  /\ request.via \in {"Get", "performListRequest"} \/ request.paginates
  /\ ret.err = NoError

ReflectsHeaders(resp) ==
  \A h \in PaginationHeaders :
    resp[FieldOf(h)] = (IF Atoi(HeaderGet(last[1].Header, h)).ok
                        THEN Some(Atoi(HeaderGet(last[1].Header, h)).v)
                        ELSE None)

\* a list operation has returned
ListDone == Done /\ request.name \in ListOperationNames

\* C4 (as the code has it): every list operation of every service, whether it
\* goes through performListRequest, through Client.Get or builds its request
\* on the req client, returns on a 2xx response whose body it could decode a
\* Response whose pagination fields reflect the headers of that response
C4_ListPagination ==
  ListDone /\ Received2xx /\ ~Undecodable =>
    /\ ret.err = NoError
    /\ ret.resp # None
    /\ ret.resp[1].Response = last[1]
    /\ ReflectsHeaders(ret.resp[1])

\* Repositories.ListBranches (performListRequest) got 200 with every header
\* set to 12
C4_Witness ==
  /\ ListDone
  /\ request.name = "Repositories.ListBranches"
  /\ request.via = "performListRequest"
  /\ last[1].StatusCode = 200
  /\ \A h \in PaginationHeaders : HeaderIs(h, 12)
  /\ \A h \in PaginationHeaders : ret.resp[1][FieldOf(h)] = Some(12)

\* C4 as stated: on every 2xx response a list operation returns a Response
\* whose pagination fields reflect the headers
C4_AsStated ==
  ListDone /\ Received2xx => (ret.resp # None /\ ReflectsHeaders(ret.resp[1]))

\* header h of the last response is present but holds no integer
Malformed(h) ==
  /\ last[1].Header[h].present
  /\ ~Atoi(last[1].Header[h].val).ok

\* a GET that goes through parsePaginationHeaders received a response with a
\* malformed pagination header
MalformedHeaderReceived ==
  /\ Done
  /\ request.method = "GET"
  /\ request.via \in {"Get", "performListRequest"} \/ request.paginates
  /\ last[1].received
  /\ \E h \in PaginationHeaders : Malformed(h)

\* C23: a pagination header that is present but holds no decimal integer
\* does not turn the call into an error (a 2xx response whose body decodes
\* is a success all the same), leaves its field of the returned Response
\* nil, and the fields of the other headers are set from their integers
C23_MalformedHeader ==
  MalformedHeaderReceived =>
    /\ (Received2xx /\ ~Undecodable) => ret.err = NoError
    /\ ret.err = NoError =>
         /\ ret.resp # None
         /\ \A h \in PaginationHeaders :
              /\ Malformed(h) => ret.resp[1][FieldOf(h)] = None
              /\ (last[1].Header[h].present /\ Atoi(last[1].Header[h].val).ok) =>
                   ret.resp[1][FieldOf(h)] = Some(Atoi(last[1].Header[h].val).v)

\* Admin.ListUsers got "abc" as x-page and 12 in the other four headers
C23_Witness ==
  /\ MalformedHeaderReceived
  /\ request.name = "Admin.ListUsers"
  /\ last[1].Header["x-page"].val = <<"a","b","c">>
  /\ \A h \in PaginationHeaders \ {"x-page"} : HeaderIs(h, 12)
  /\ ret.err = NoError
  /\ ret.resp[1].Page = None
  /\ \A h \in PaginationHeaders \ {"x-page"} : ret.resp[1][FieldOf(h)] = Some(12)

(***************************************************************************)
(* Specification of request URLs: a Client built for a test server calls   *)
(* the operations of RepositoriesService with identifiers that contain a   *)
(* slash.                                                                  *)
(***************************************************************************)

\* "ci/demo", the repo path of TestURLEncodingForRepoPath
CiDemo == <<"c","i","/","d","e","m","o">>

\* "feature/test-branch", the branch name of TestURLEncodingForBranchName
FeatureTestBranch ==
  <<"f","e","a","t","u","r","e","/","t","e","s","t","-","b","r","a","n","c","h">>

URLIdentifiers == {TestPath, CiDemo, FeatureTestBranch}

URLOps == RepositoriesService \cup RepositoriesService_pullrequests

URLOutcomes ==
  {TransportFailure}
  \cup Responses({200, 404}, {NoHeaders}, {ArrayBody, ObjectBody})

InitURL ==
  /\ nclients = 1
  /\ newArgs = [token |-> TestToken, options |-> <<OptBaseURL(ServerBaseURL)>>]
  /\ client = NewClientResult(1, TestToken, <<OptBaseURL(ServerBaseURL)>>).c
  /\ newErr = FALSE
  /\ pc = "idle"
  /\ request = NoRequest
  /\ served = <<>>
  /\ last = None
  /\ ret = NoReturn
  /\ ctx = "live"
  /\ loop = NoLoop
  /\ server = NoServer
  /\ callers = NoCallers
  /\ jsonTime = NoTime

NextURL ==
  \/ \E op \in URLOps : \E args \in Args(op, URLIdentifiers, {1}) : Get(op, args, ZeroOptions(op))
  \/ \E op \in URLOps : \E args \in Args(op, URLIdentifiers, {1}) : Post(op, args, ZeroOptions(op))
  \/ \E op \in URLOps : \E args \in Args(op, URLIdentifiers, {1}) : Patch(op, args, ZeroOptions(op))
  \/ \E op \in URLOps : \E args \in Args(op, URLIdentifiers, {1}) : Delete(op, args, ZeroOptions(op))
  \/ \E op \in URLOps : \E args \in Args(op, URLIdentifiers, {1}) : DeleteWithResponse(op, args, ZeroOptions(op))
  \/ \E op \in URLOps : \E args \in Args(op, URLIdentifiers, {1}) : performListRequest(op, args, ZeroOptions(op))
  \/ \E op \in URLOps : \E args \in Args(op, URLIdentifiers, {1}) : Direct(op, args, ZeroOptions(op))
  \/ \E outcome \in URLOutcomes : RoundTrip(outcome)
  \/ Continue

SpecURL == InitURL /\ [][NextURL]_vars

\* a format with every %s filled by url.PathEscape of its argument
PathEscaped(format) ==
  [k \in 1..Len(format) |->
     IF format[k].kind = "%s" THEN ArgEsc(format[k].i) ELSE format[k]]

\* the URL under the API root of c in which every identifier given to op
\* occupies one path segment
SegmentURL(c, op, args) ==
  c.baseURL \o apiVersionPath \o <<"/">> \o Sprintf(PathEscaped(op.format), args)

\* C5: the request of every repository operation goes to the URL in which
\* each identifier it was called with (repo path, space reference, branch
\* name, tag name, commit SHA) is one path segment, every "/" of the
\* identifier sent as %2F: ListBranches("ci/demo") requests
\* /api/v1/repos/ci%2Fdemo/branches, GetBranch("ci/demo",
\* "feature/test-branch") requests
\* /api/v1/repos/ci%2Fdemo/branches/feature%2Ftest-branch (GetFileContent,
\* whose second argument is a file path, is left aside)
C5_SlashPercentEncoded ==
  (pc # "idle" /\ request.name # "Repositories.GetFileContent") =>
    /\ request.urlOK
    /\ request.url = SegmentURL(client[1], Op(request.name), request.args)

(***************************************************************************)
(* Specification of the options: a Client calls every operation that takes *)
(* an options struct with a url tag, with the nil pointer, with a struct    *)
(* whose fields are all nil, with one field set, and with every field set.  *)
(***************************************************************************)

\* values an options field of each kind may point to
SampleValues(kind) ==
  CASE kind = "int" -> <<1, 12, 0 - 1>>
    [] kind = "string" -> <<<<"a","s","c">>, <<>>>>
    [] kind = "bool" -> <<TRUE, FALSE>>
    [] kind = "time" ->
         <<[year |-> 2024, month |-> 1, day |-> 15, hour |-> 10, minute |-> 30,
            second |-> 0, offset |-> 0],
           [year |-> 2023, month |-> 12, day |-> 31, hour |-> 23, minute |-> 59,
            second |-> 59, offset |-> 480]>>

FieldNames(fields) == {fields[i].name : i \in 1..Len(fields)}

\* the options structs over fields: no field set, one field set to any of
\* its values, every field set to its first or to its second value
Structs(fields) ==
  {[f \in FieldNames(fields) |-> None]}
  \cup UNION {{[f \in FieldNames(fields) |->
                  IF f = fields[i].name THEN Some(SampleValues(fields[i].kind)[k])
                  ELSE None] :
               k \in 1..Len(SampleValues(fields[i].kind))} :
              i \in 1..Len(fields)}
  \cup {[f \in FieldNames(fields) |->
           Some(SampleValues(fields[CHOOSE i \in 1..Len(fields) : fields[i].name = f].kind)[k])] :
        k \in 1..2}

\* the options pointers an operation may be called with
OptionPointers(op) ==
  IF op.options.type = "" THEN {None}
  ELSE {None} \cup {Some(o) : o \in Structs(op.options.fields)}

\* the operations that take an options struct with url tags, and the
\* performListRequest helper itself
OptOps ==
  {op \in Operations : op.options.type # ""}
  \cup {HelperCall("performListRequest", Some("slice"), "none")}

OptOutcomes ==
  {TransportFailure} \cup Responses({200, 404}, {TestHeaders}, {ArrayBody, ObjectBody})

InitOpt == InitErr

NextOpt ==
  \/ \E op \in OptOps : \E args \in Args(op, {TestPath}, {1}) :
       \E opt \in OptionPointers(op) : Get(op, args, opt)
  \/ \E op \in OptOps : \E args \in Args(op, {TestPath}, {1}) :
       \E opt \in OptionPointers(op) : performListRequest(op, args, opt)
  \/ \E op \in OptOps : \E args \in Args(op, {TestPath}, {1}) :
       \E opt \in OptionPointers(op) : Direct(op, args, opt)
  \/ \E outcome \in OptOutcomes : RoundTrip(outcome)
  \/ Continue

SpecOpt == InitOpt /\ [][NextOpt]_vars

\* the five query parameters of ListOptions with their fields
ListParams ==
  {<<"page", "Page">>, <<"limit", "Limit">>, <<"sort", "Sort">>,
   <<"order", "Order">>, <<"query", "Query">>}

\* the value of the query parameter key in q, None without one
ParamValue(q, key) ==
  IF \E x \in q : x[1] = key THEN Some((CHOOSE x \in q : x[1] = key)[2]) ELSE None

\* the text is what the field value v reads as: an integer in decimal
\* (strconv.Atoi gives it back), a string verbatim
ReadsAs(text, field, v) ==
  IF field \in {"Page", "Limit"} THEN Atoi(text) = [ok |-> TRUE, v |-> v]
  ELSE text = v

\* buildQueryParams made q of q0 for the ListOptions pointer opt as C20 says
BuiltFrom(q, q0, opt) ==
  /\ \A x \in q, y \in q : x[1] = y[1] => x = y
  /\ {x \in q : \A p \in ListParams : x[1] # p[1]} = {x \in q0 : \A p \in ListParams : x[1] # p[1]}
  /\ opt = None => q = q0
  /\ opt # None =>
       \A p \in ListParams :
         IF opt[1][p[2]] = None THEN ParamValue(q, p[1]) = ParamValue(q0, p[1])
         ELSE /\ ParamValue(q, p[1]) # None
              /\ ReadsAs(ParamValue(q, p[1])[1], p[2], opt[1][p[2]][1])

\* query parameters a request may carry before buildQueryParams is called
EarlierQueries ==
  {{}, {<<"git_ref", <<"m","a","i","n">>>>},
   {<<"page", <<"7">>>>, <<"state", <<"o","p","e","n">>>>}}

\* a request that performListRequest built is on its way or answered
ListRequestBuilt == pc \in {"sending", "done"} /\ request.via = "performListRequest"

\* C20: buildQueryParams sets each of page, limit, sort, order, query if and
\* only if the field of ListOptions is not nil (page and limit as decimal
\* integers, the others verbatim), sets nothing for the nil pointer, and
\* leaves every other query parameter of the request as it was
C20_buildQueryParams ==
  ListRequestBuilt =>
    /\ BuiltFrom(request.query, {}, request.opt)
    /\ \A q0 \in EarlierQueries : BuiltFrom(buildQueryParams(q0, request.opt), q0, request.opt)

\* Repositories.ListBranches called with &ListOptions{Limit: Ptr(12)}
C20_Witness ==
  /\ ListRequestBuilt
  /\ request.name = "Repositories.ListBranches"
  /\ request.opt # None
  /\ request.opt[1]["Limit"] = Some(12)
  /\ request.opt[1]["Page"] = None
  /\ request.query = {<<"limit", <<"1","2">>>>}

\* the descriptor of the service operation that was called
Called == CHOOSE op \in Operations : op.name = request.name

\* a list operation that takes an options pointer was called with nil
ListCalledWithNil ==
  /\ pc # "idle"
  /\ request.name \in ListOperationNames
  /\ Called.options.type # ""
  /\ request.opt = None

\* C15: every list operation that takes an options pointer accepts nil: it
\* does not panic, sends the request without query parameters, and returns
\* the decoded list of a 2xx answer with a nil error
C15_NilOptionsAccepted ==
  ListCalledWithNil =>
    /\ pc # "panic"
    /\ request.query = {}
    /\ (Done /\ Received2xx /\ ~Undecodable =>
          ret.err = NoError /\ ret.data = Some(last[1].body))

\* the format a value of each kind is transmitted in
KindFormat(kind) ==
  CASE kind = "int" -> "%d"
    [] kind = "string" -> "%s"
    [] kind = "bool" -> "%t"
    [] kind = "time" -> "String()"

\* a service operation with an options struct sent its request
SentWithOptions ==
  /\ pc \in {"sending", "done"}
  /\ request.name \in {op.name : op \in Operations}
  /\ request.opt # None

\* field i of the options struct of the operation is transmitted as the claim
\* says: under the name of its url tag when it is not nil, not at all when
\* it and every other field of that tag is nil
Transmitted(fields, i) ==
  IF request.opt[1][fields[i].name] # None
  THEN ParamValue(request.query, fields[i].tag) =
         Some(FormatValue(KindFormat(fields[i].kind), request.opt[1][fields[i].name][1]))
  ELSE (\A j \in 1..Len(fields) :
          fields[j].tag = fields[i].tag => request.opt[1][fields[j].name] = None)
       => ParamValue(request.query, fields[i].tag) = None

\* C16: every field of an operation's options struct that is not nil is
\* transmitted as the query parameter named in its url tag, and a nil field
\* transmits nothing
C16_FieldsTransmitted ==
  SentWithOptions =>
    \A i \in 1..Len(Called.options.fields) : Transmitted(Called.options.fields, i)

(***************************************************************************)
(* Specification of cancellation: a Client, with or without WithRetry,     *)
(* runs any sequence of operations, and the context of a call may be        *)
(* cancelled before the call or while its request is on its way.            *)
(***************************************************************************)

CtxOptions ==
  {<<OptBaseURL(ServerBaseURL)>>, <<OptBaseURL(ServerBaseURL), OptRetry(1)>>}

CtxOutcomes ==
  {TransportFailure} \cup Responses({200, 404}, {TestHeaders}, {ArrayBody, ObjectBody})

InitCtx ==
  /\ nclients = 1
  /\ \E options \in CtxOptions :
       /\ newArgs = [token |-> TestToken, options |-> options]
       /\ client = NewClientResult(1, TestToken, options).c
  /\ newErr = FALSE
  /\ pc = "idle"
  /\ request = NoRequest
  /\ served = <<>>
  /\ last = None
  /\ ret = NoReturn
  /\ ctx = "live"
  /\ loop = NoLoop
  /\ server = NoServer
  /\ callers = NoCallers
  /\ jsonTime = NoTime

NextCtx ==
  \/ \E op \in SpecOps : \E args \in Args(op, {TestPath}, {1}) : Get(op, args, ZeroOptions(op))
  \/ \E op \in SpecOps : \E args \in Args(op, {TestPath}, {1}) : Post(op, args, ZeroOptions(op))
  \/ \E op \in SpecOps : \E args \in Args(op, {TestPath}, {1}) : Put(op, args, ZeroOptions(op))
  \/ \E op \in SpecOps : \E args \in Args(op, {TestPath}, {1}) : Patch(op, args, ZeroOptions(op))
  \/ \E op \in SpecOps : \E args \in Args(op, {TestPath}, {1}) : Delete(op, args, ZeroOptions(op))
  \/ \E op \in SpecOps : \E args \in Args(op, {TestPath}, {1}) : DeleteWithResponse(op, args, ZeroOptions(op))
  \/ \E op \in SpecOps : \E args \in Args(op, {TestPath}, {1}) : performListRequest(op, args, ZeroOptions(op))
  \/ \E op \in SpecOps : \E args \in Args(op, {TestPath}, {1}) : Direct(op, args, ZeroOptions(op))
  \/ Cancel
  \/ \E outcome \in CtxOutcomes : RoundTrip(outcome)
  \/ Continue

SpecCtx == InitCtx /\ [][NextCtx]_vars

\* the operation returned, and its context was done before the response of
\* its last round trip arrived
ReturnedCancelled == Done /\ ctx = "done"

OtherToken == "other-token"

SeqTokens == {TestToken, OtherToken}

SeqOptions ==
  {<<OptBaseURL(ServerBaseURL)>>, <<OptBaseURL(ServerBaseURL), OptRetry(1)>>}

SeqOutcomes ==
  {TransportFailure} \cup Responses({200, 404}, {TestHeaders}, {ArrayBody, ObjectBody})

\* the helpers, through which most operations send their request, and every
\* operation that builds its request on the req client itself
SeqOps == HelperCalls \cup {op \in Operations : op.via = "direct"}

\* the sequence may go on
Room == Len(server.requested) < MaxCalls

InitSeq ==
  /\ nclients = 0
  /\ newArgs = [token |-> "", options |-> <<>>]
  /\ newErr = FALSE
  /\ client = None
  /\ pc = "idle"
  /\ request = NoRequest
  /\ served = <<>>
  /\ last = None
  /\ ret = NoReturn
  /\ ctx = "live"
  /\ loop = NoLoop
  /\ server = [pages |-> 1, requested |-> <<>>]
  /\ callers = NoCallers
  /\ jsonTime = NoTime

NextSeq ==
  \/ \E token \in SeqTokens : \E options \in SeqOptions : NewClient(token, options)
  \/ Room /\ \E op \in SeqOps : \E args \in Args(op, {TestPath}, {1}) : Get(op, args, ZeroOptions(op))
  \/ Room /\ \E op \in SeqOps : \E args \in Args(op, {TestPath}, {1}) : Post(op, args, ZeroOptions(op))
  \/ Room /\ \E op \in SeqOps : \E args \in Args(op, {TestPath}, {1}) : Put(op, args, ZeroOptions(op))
  \/ Room /\ \E op \in SeqOps : \E args \in Args(op, {TestPath}, {1}) : Patch(op, args, ZeroOptions(op))
  \/ Room /\ \E op \in SeqOps : \E args \in Args(op, {TestPath}, {1}) : Delete(op, args, ZeroOptions(op))
  \/ Room /\ \E op \in SeqOps : \E args \in Args(op, {TestPath}, {1}) : DeleteWithResponse(op, args, ZeroOptions(op))
  \/ Room /\ \E op \in SeqOps : \E args \in Args(op, {TestPath}, {1}) : performListRequest(op, args, ZeroOptions(op))
  \/ Room /\ \E op \in SeqOps : \E args \in Args(op, {TestPath}, {1}) : Direct(op, args, ZeroOptions(op))
  \/ \E outcome \in SeqOutcomes : RoundTrip(outcome)
  \/ Continue

SpecSeq == InitSeq /\ [][NextSeq]_vars

\* C12: every request of every operation, whether it goes through a helper
\* or is built on the req client, carries the bearer token given to the
\* NewClient call that made the Client, whatever operations came before
C12_BearerToken ==
  pc # "idle" =>
    /\ request.bearer = newArgs.token
    /\ client[1].client.BearerToken = newArgs.token

\* Admin.ListUsers, which builds its request itself, is called on a second
\* Client with another token after two answered requests
C12_Witness ==
  /\ pc = "sending"
  /\ request.name = "Admin.ListUsers"
  /\ request.via = "direct"
  /\ nclients = 2
  /\ newArgs.token = OtherToken
  /\ Len(server.requested) = 2
  /\ request.bearer = OtherToken

\* C17: no operation changes the Client: after any sequence of operations,
\* successful or failed, its base URL, token, service pointers and the
\* settings of its req client are those NewClient gave it
C17_ClientUnchanged ==
  Returned => client = NewClientResult(nclients, newArgs.token, newArgs.options).c

\* an operation failed after an earlier one was answered, and the Client is
\* as NewClient made it
C17_Witness ==
  /\ Done
  /\ ret.err # NoError
  /\ Len(server.requested) >= 1
  /\ served = <<0>>
  /\ client = NewClientResult(nclients, newArgs.token, newArgs.options).c

(***************************************************************************)
(* Specification of the page-walking loop of the README: the caller starts *)
(* at page 1 and calls Admin.ListUsers until NextPage is nil or an error    *)
(* comes back; the server has N pages and answers page p with x-next-page   *)
(* p + 1 while p < N.  A round trip may also fail, and the context of a     *)
(* call may end.                                                            *)
(***************************************************************************)

\* &ListUsersOptions{ListOptions: ListOptions{Page: Ptr(page), Limit: Ptr(10)}}
LoopOptions(page) ==
  Some([f \in FieldNames(Op("Admin.ListUsers").options.fields) |->
          CASE f = "ListOptions.Page" -> Ptr(page)
            [] f = "ListOptions.Limit" -> Ptr(10)
            [] OTHER -> None])

\* the answer of a server with n pages to a request for page p
PageAnswer(n, p) ==
  [kind |-> "response", status |-> 200,
   header |-> [h \in PaginationHeaders |->
                 CASE h = "x-page" -> HeaderValue(FormatInt(p))
                   [] h = "x-per-page" -> HeaderValue(<<"1","0">>)
                   [] h = "x-next-page" ->
                        IF p < n THEN HeaderValue(FormatInt(p + 1)) ELSE NoHeader
                   [] h = "x-total" -> NoHeader
                   [] h = "x-total-pages" -> HeaderValue(FormatInt(n))],
   body |-> ArrayBody]

InitWalk ==
  /\ nclients = 1
  /\ \E token \in SeqTokens : \E options \in SeqOptions :
       /\ newArgs = [token |-> token, options |-> options]
       /\ client = NewClientResult(1, token, options).c
  /\ newErr = FALSE
  /\ pc = "idle"
  /\ request = NoRequest
  /\ served = <<>>
  /\ last = None
  /\ ret = NoReturn
  /\ ctx = "live"
  /\ loop = [state |-> "running", page |-> 1]
  /\ \E n \in 1..MaxPages : server = [pages |-> n, requested |-> <<>>]
  /\ callers = NoCallers
  /\ jsonTime = NoTime

\* the loop may call: it is running and the caller is between two calls
LoopReady ==
  /\ pc = "idle"
  /\ loop.state = "running"
  /\ Len(server.requested) <= MaxPages

\* users, resp, err := client.Admin.ListUsers(ctx, &ListUsersOptions{...})
LoopCall == LoopReady /\ Direct(Op("Admin.ListUsers"), <<>>, LoopOptions(loop.page))

\* the round trip ends: the server answers the page asked for, or no
\* response arrives
Answer ==
  \E outcome \in {PageAnswer(server.pages, RequestedPage(request.query)),
                  TransportFailure} : RoundTrip(outcome)

NextWalk ==
  \/ LoopCall
  \/ Cancel /\ loop.state = "running"
  \/ Answer
  \/ Continue

SpecWalk == InitWalk /\ [][NextWalk]_vars

\* the step LoopCall, told by what it does to pc
LoopCalls == LoopReady /\ pc' = "sending"

\* the loop is sequential code that goes on: it makes its call, every round
\* trip ends (by an answer, a failure or the timeout of the req client), and
\* the caller takes what the call returned
FairSpecWalk ==
  SpecWalk /\ WF_pc(LoopCalls) /\ WF_vars(Answer) /\ WF_vars(Continue)

\* the pages 1..k in increasing order
Pages(k) == [i \in 1..k |-> i]

\* the loop has ended
LoopEnded == loop.state \in {"done", "error"}

\* the server was asked for the first pages, each once and in order, and
\* for all of them when the loop ended without error
EachPageOnce ==
  /\ \E k \in 0..server.pages : server.requested = Pages(k)
  /\ loop.state = "done" => server.requested = Pages(server.pages)

\* C14: the page-walking loop over Admin.ListUsers ends, and it requests the
\* pages 1..N each exactly once in increasing order from a server with N
\* pages that sends x-next-page p + 1 on every page p < N and none on page N
\* (a loop ended by an error has requested the pages before the error)
C14_PageWalk == [](EachPageOnce) /\ <>(LoopEnded)

\* the loop ended after the last of three pages
C14_Witness ==
  /\ loop.state = "done"
  /\ server.pages = 3
  /\ server.requested = <<1, 2, 3>>

\* C18: Ptr(v) is a pointer that is not nil and points to a value equal to
\* v: for the page of every call of the loop and its limit, and for the
\* values of TestPtr
C18_Ptr ==
  /\ (pc # "idle" /\ loop.state = "running" =>
        /\ request.opt[1]["ListOptions.Page"] # None
        /\ request.opt[1]["ListOptions.Page"][1] = loop.page
        /\ request.opt[1]["ListOptions.Limit"] # None
        /\ request.opt[1]["ListOptions.Limit"][1] = 10)
  /\ Ptr("test") # None /\ Ptr("test")[1] = "test"
  /\ Ptr(42) # None /\ Ptr(42)[1] = 42
  /\ Ptr(TRUE) # None /\ Ptr(TRUE)[1] = TRUE

\* the loop called Admin.ListUsers with Page: Ptr(2)
C18_Witness ==
  /\ pc = "sending"
  /\ loop.state = "running"
  /\ loop.page = 2
  /\ request.opt[1]["ListOptions.Page"] = Some(2)
  /\ request.query = {<<"page", <<"2">>>>, <<"limit", <<"1","0">>>>}

(***************************************************************************)
(* Specification of request targets: a Client built for a test server     *)
(* hands the verb helpers paths of its own, calls the user operations that *)
(* escape their identifier, and calls repository operations, through a     *)
(* helper and built directly, with identifiers that hold a slash, ".."     *)
(* segments or a leading slash.                                            *)
(***************************************************************************)

\* "users/ci%2Fdemo", the path Users.GetUser makes of "ci/demo"
EscapedUserPath == <<"u","s","e","r","s","/">> \o PathEscape(CiDemo)

\* "../../x", an identifier that climbs two segments
ClimbingPath == <<".",".","/",".",".","/","x">>

\* "/x", an identifier that begins with a slash
RootedPath == <<"/","x">>

TargetIdentifiers == {TestPath, CiDemo, ClimbingPath, RootedPath}

TargetPaths == TargetIdentifiers \cup {EscapedUserPath}

\* the user operations that call url.PathEscape, two repository operations
\* that go through Client.Get and one that builds its request directly
TargetOps ==
  {Op(n) : n \in {"Users.GetUser", "Users.GetUserKey", "Users.DeleteUserKey",
                  "Users.DeleteUserToken", "Repositories.GetRepository",
                  "Repositories.GetFileContent", "Repositories.ListCommits"}}

TargetOutcomes ==
  {TransportFailure} \cup Responses({200, 404}, {NoHeaders}, {ObjectBody})

InitTarget == InitURL

NextTarget ==
  \/ \E path \in TargetPaths : Get(HelperCall("Get", Some("struct"), "none"), <<path>>, None)
  \/ \E path \in TargetPaths : Post(HelperCall("Post", None, "value"), <<path>>, None)
  \/ \E op \in TargetOps : \E args \in Args(op, TargetIdentifiers, {1}) :
       Get(op, args, ZeroOptions(op))
  \/ \E op \in TargetOps : \E args \in Args(op, TargetIdentifiers, {1}) :
       Delete(op, args, ZeroOptions(op))
  \/ \E op \in TargetOps : \E args \in Args(op, TargetIdentifiers, {1}) :
       Direct(op, args, ZeroOptions(op))
  \/ \E outcome \in TargetOutcomes : RoundTrip(outcome)
  \/ Continue

SpecTarget == InitTarget /\ [][NextTarget]_vars

\* c.baseURL + apiVersionPath + "/", the API root of the Client c
APIRoot(c) == c.baseURL \o apiVersionPath \o <<"/">>

\* the path the operation in progress built: the one given to a helper
\* called by itself, else the fmt.Sprintf of the operation
PathGiven ==
  IF \E op \in Operations : op.name = request.name
  THEN Sprintf(Op(request.name).format, request.args)
  ELSE request.args[1]

\* the request in progress went through a verb helper
ThroughHelper == pc # "idle" /\ request.via # "direct"

\* s holds a '%'
HasPercent(s) == IndexOf(s, "%") > 0

\* C21: a path with percent-escapes handed to a verb helper (by a caller, or
\* the url.PathEscape output placed in it by Users.GetUser, GetUserKey,
\* DeleteUserKey, DeleteUserToken) appears in the requested URL with its
\* escapes unchanged: the URL is the API root followed by the path, %2F
\* stays %2F and is not escaped again to %252F
C21_EscapesPreserved ==
  (ThroughHelper /\ HasPercent(PathGiven)) =>
    /\ request.urlOK
    /\ request.url = APIRoot(client[1]) \o PathGiven

\* C27: the URL of every request that goes through a verb helper lies under
\* the API root <base URL>api/v1/, whatever identifiers the path was made
\* of, ".." segments and leading slashes included
C27_UnderAPIRoot ==
  ThroughHelper =>
    /\ request.urlOK
    /\ HasPrefix(request.url, APIRoot(client[1]))

\* the URL a request for path reaches when sent through a verb helper: the
\* absolute URL of buildFullURL
HelperTarget(c, path) == RequestURL(c.client.BaseURL, buildFullURL(c.baseURL, path))

\* the URL a request for path reaches when built on the req client: the
\* relative path, resolved against the base URL set in NewClient
DirectTarget(c, path) == RequestURL(c.client.BaseURL, path)

\* C28: for the path of every request, the verb helpers and a request built
\* directly on the req client reach the same URL, <base URL>api/v1/<path>
C28_SameTarget ==
  pc # "idle" =>
    /\ request.urlOK
    /\ HelperTarget(client[1], PathGiven) = DirectTarget(client[1], PathGiven)
    /\ request.url = APIRoot(client[1]) \o PathGiven

(***************************************************************************)
(* Specification of request bodies: a Client calls DeleteRepository and    *)
(* DeleteSpace with and without a deleteID, and the helpers with and       *)
(* without a body.                                                         *)
(***************************************************************************)

\* "id", a deleteID
TestDeleteID == <<"i","d">>

\* the deleteID argument: nil or a pointer to a string
DeleteIDs == {None, Ptr(TestDeleteID), Ptr(<<>>)}

BodyOps == {Op(n) : n \in DeleteOperations}

InitBody == InitURL

NextBody ==
  \/ \E op \in BodyOps : \E args \in Args(op, {TestPath, CiDemo}, {1}) :
       \E deleteID \in DeleteIDs : Delete(op, args, deleteID)
  \/ \E op \in HelperCalls : Get(op, <<TestPath>>, ZeroOptions(op))
  \/ \E op \in HelperCalls : Post(op, <<TestPath>>, ZeroOptions(op))
  \/ \E op \in HelperCalls : Put(op, <<TestPath>>, ZeroOptions(op))
  \/ \E op \in HelperCalls : Patch(op, <<TestPath>>, ZeroOptions(op))
  \/ \E op \in HelperCalls : Delete(op, <<TestPath>>, ZeroOptions(op))
  \/ \E op \in HelperCalls : DeleteWithResponse(op, <<TestPath>>, ZeroOptions(op))
  \/ \E outcome \in SeqOutcomes : RoundTrip(outcome)
  \/ Continue

SpecBody == InitBody /\ [][NextBody]_vars

\* C25: the DELETE request of Repositories.DeleteRepository and of
\* Spaces.DeleteSpace has a body if and only if deleteID is not nil, the
\* JSON object carrying delete_id; with a nil deleteID it has no body, not
\* even a JSON null
C25_BodyIffDeleteID ==
  (pc # "idle" /\ request.name \in DeleteOperations) =>
    /\ request.method = "DELETE"
    /\ request.body # NoBody <=> request.opt # None
    /\ request.opt # None => request.body = [json |-> "object", delete_id |-> request.opt]

(***************************************************************************)
(* Specification of the result destination: a Client, with or without      *)
(* WithRetry, runs the helpers and the list operations against a server     *)
(* that answers with any status and with a body that decodes, decodes in    *)
(* part or does not decode.                                                 *)
(***************************************************************************)

DestOptions == {<<>>, <<OptRetry(1)>>}

DestOutcomes ==
  {TransportFailure}
  \cup Responses({200, 404, 500}, {NoHeaders}, {ObjectBody, ArrayBody, MismatchBody})

DestOps == HelperCalls \cup ListOperations

InitDest ==
  /\ nclients = 1
  /\ \E options \in DestOptions :
       /\ newArgs = [token |-> TestToken, options |-> options]
       /\ client = NewClientResult(1, TestToken, options).c
  /\ newErr = FALSE
  /\ pc = "idle"
  /\ request = NoRequest
  /\ served = <<>>
  /\ last = None
  /\ ret = NoReturn
  /\ ctx = "live"
  /\ loop = NoLoop
  /\ server = NoServer
  /\ callers = NoCallers
  /\ jsonTime = NoTime

NextDest ==
  \/ \E op \in DestOps : \E args \in Args(op, {TestPath}, {1}) : Get(op, args, ZeroOptions(op))
  \/ \E op \in DestOps : \E args \in Args(op, {TestPath}, {1}) : Post(op, args, ZeroOptions(op))
  \/ \E op \in DestOps : \E args \in Args(op, {TestPath}, {1}) : Put(op, args, ZeroOptions(op))
  \/ \E op \in DestOps : \E args \in Args(op, {TestPath}, {1}) : Patch(op, args, ZeroOptions(op))
  \/ \E op \in DestOps : \E args \in Args(op, {TestPath}, {1}) : DeleteWithResponse(op, args, ZeroOptions(op))
  \/ \E op \in DestOps : \E args \in Args(op, {TestPath}, {1}) : performListRequest(op, args, ZeroOptions(op))
  \/ \E op \in DestOps : \E args \in Args(op, {TestPath}, {1}) : Direct(op, args, ZeroOptions(op))
  \/ \E outcome \in DestOutcomes : RoundTrip(outcome)
  \/ Continue

SpecDest == InitDest /\ [][NextDest]_vars

\* the operation ended with the error of a status outside 200..299 or of a
\* round trip without response
EndedWithError == Done /\ ret.err # NoError /\ ~Received2xx

\* a round trip that ends without response or with a status outside 200..299
FailingRoundTrip ==
  /\ pc = "sending"
  /\ last' # None
  /\ ~IsSuccessState(last'[1])

\* C26 (as the code has it): a round trip that ends with a status outside
\* 200..299 or without response writes nothing into the result destination
\* (an error body is never decoded into it), and an operation that sent its
\* request once and ended with such an error leaves the destination as it
\* was before the call
C26_DestinationKept ==
  /\ []((EndedWithError /\ Len(served) = 1) => ret.dest = ZeroValue)
  /\ [][FailingRoundTrip => ret'.dest = ret.dest]_vars

\* Client.Get with a result destination was answered 404 with a JSON object
\* and returned the *ErrorResponse, the destination untouched
C26_Witness ==
  /\ EndedWithError
  /\ request.name = "Client.Get"
  /\ request.result = Some("struct")
  /\ served = <<404>>
  /\ last[1].body = ObjectBody
  /\ ret.err.kind = "ErrorResponse"
  /\ ret.dest = ZeroValue

\* C26 as stated: whenever an operation ends with the error of a status
\* outside 200..299 or of a transport failure, the result destination is as
\* it was before the call
C26_AsStated == EndedWithError => ret.dest = ZeroValue

(***************************************************************************)
(* Specification of concurrent use: two goroutines share one Client and    *)
(* call its operations with arguments of their own, in every interleaving   *)
(* of their calls, round trips and returns; the context of either may be    *)
(* cancelled; the server echoes the page and the operation of each request  *)
(* in its answer.                                                           *)
(***************************************************************************)

\* &ListOptions{Page: Ptr(page)}
PageOptions(page) ==
  Some([f \in FieldNames(ListOptionsFields) |-> IF f = "Page" THEN Ptr(page) ELSE None])

\* the answer of the echoing server to the request req: the page it asks
\* for in x-page and in the body, with the name of the operation
EchoAnswer(req) ==
  [PageAnswer(server.pages, RequestedPage(req.query)) EXCEPT
     !.body = Body(IF req.result = Some("slice") THEN "array" ELSE "object",
                   ToString(RequestedPage(req.query)), req.name)]

\* 404 Not Found with an error body
NotFound == [kind |-> "response", status |-> 404, header |-> NoHeaders, body |-> TestErrorBody]

InitConc ==
  /\ nclients = 1
  /\ newArgs = [token |-> TestToken, options |-> <<OptBaseURL(ServerBaseURL)>>]
  /\ client = NewClientResult(1, TestToken, <<OptBaseURL(ServerBaseURL)>>).c
  /\ newErr = FALSE
  /\ pc = "idle"
  /\ request = NoRequest
  /\ served = <<>>
  /\ last = None
  /\ ret = NoReturn
  /\ ctx = "live"
  /\ loop = NoLoop
  /\ server = [pages |-> MaxPages, requested |-> <<>>]
  /\ callers = [running |-> 1, calls |-> <<None, None>>,
                parked |-> Some(Local("idle", NoRequest, <<>>, None, NoReturn, "live"))]
  /\ jsonTime = NoTime

NextConc ==
  \/ Room /\ \E page \in 1..2 :
       performListRequest(HelperCall("performListRequest", Some("slice"), "none"),
                          <<TestPath>>, PageOptions(page))
  \/ Room /\ Direct(Op("Admin.ListUsers"), <<>>, LoopOptions(1))
  \/ Room /\ Post(HelperCall("Post", Some("struct"), "value"), <<CiDemo>>, None)
  \/ \E outcome \in {EchoAnswer(request), NotFound} : RoundTrip(outcome)
  \/ Cancel
  \/ Continue
  \/ Switch

SpecConc == InitConc /\ [][NextConc]_vars

\* the goroutines inside a call or just back from one: their number, their
\* local variables and what they called
InCall ==
  {[g |-> callers.running,
    l |-> Local(pc, request, served, last, ret, ctx),
    call |-> callers.calls[callers.running]],
   [g |-> 3 - callers.running,
    l |-> callers.parked[1],
    call |-> callers.calls[3 - callers.running]]}

\* the request of a goroutine is the one its own call builds: its query
\* parameters, body, URL and result destination come from its own arguments
OwnRequest(l, call) ==
  l.request = [NewRequest(client[1], call.op, call.args, call.opt,
                          Sprintf(call.op.format, call.args))
                 EXCEPT !.attempt = l.request.attempt]

\* the page a call asks for
CalledPage(call) == RequestedPage(Query(call.op.options, call.opt))

\* what a goroutine got back belongs to its own request: the Response wraps
\* the answer to it, and what was decoded into its destination is the echo
\* of its own page and operation
OwnResponse(l, call) ==
  (l.pc = "done" /\ l.ret.err = NoError) =>
    /\ l.ret.resp # None
    /\ l.ret.resp[1].Response = l.last[1]
    /\ l.last[1].Header["x-page"] = HeaderValue(FormatInt(CalledPage(call)))
    /\ l.ret.dest = (IF call.op.result = None THEN ZeroValue
                     ELSE Body(IF call.op.result = Some("slice") THEN "array" ELSE "object",
                               ToString(CalledPage(call)), call.op.name))

\* a call ends with the error of a context only when its own context is done
OwnContext(l) == (l.pc = "done" /\ l.ret.err.kind = "context") => l.ctx = "done"

\* C29: two goroutines use one Client at once: in every interleaving each
\* request carries the query parameters, the body and the result
\* destination of its own call and nothing of the other, a cancelled
\* context ends only the call it was passed to, and each caller gets the
\* response to its own request
C29_NoInterference ==
  \A c \in InCall :
    c.l.pc # "idle" =>
      /\ c.call # None
      /\ OwnRequest(c.l, c.call[1])
      /\ OwnResponse(c.l, c.call[1])
      /\ OwnContext(c.l)

\* one goroutine got page 2 of its list back while the request of the
\* other, for page 1, is still on its way and its context is cancelled
C29_Witness ==
  /\ pc = "done"
  /\ request.name = "Client.performListRequest"
  /\ request.query = {<<"page", <<"2">>>>}
  /\ ret.err = NoError
  /\ ret.resp[1].Page = Some(2)
  /\ callers.parked[1].pc = "sending"
  /\ callers.parked[1].request.name = "Admin.ListUsers"
  /\ callers.parked[1].request.query = {<<"page", <<"1">>>>, <<"limit", <<"1","0">>>>}
  /\ callers.parked[1].ctx = "done"

(***************************************************************************)
(* Specification of Time in JSON: a caller holds a Time t and a receiver   *)
(* u, marshals t, and unmarshals into u the data MarshalJSON returned or    *)
(* data of its own, well formed or not.                                     *)
(***************************************************************************)

\* the Times a caller holds: with and without a zone offset, the last day
\* of a leap February, the zero value, the last second of year 9999 and the
\* first of year 10000
Times ==
  {[year |-> 2024, month |-> 1, day |-> 15, hour |-> 10, minute |-> 30, second |-> 0,
    offset |-> 0],
   [year |-> 2023, month |-> 12, day |-> 31, hour |-> 23, minute |-> 59, second |-> 59,
    offset |-> 480],
   [year |-> 2024, month |-> 2, day |-> 29, hour |-> 0, minute |-> 0, second |-> 0,
    offset |-> 0 - 330],
   [year |-> 1970, month |-> 1, day |-> 1, hour |-> 0, minute |-> 0, second |-> 0,
    offset |-> 0],
   ZeroTime,
   [year |-> 9999, month |-> 12, day |-> 31, hour |-> 23, minute |-> 59, second |-> 59,
    offset |-> 0],
   [year |-> 10000, month |-> 1, day |-> 1, hour |-> 0, minute |-> 0, second |-> 0,
    offset |-> 0]}

\* what the receiver holds before UnmarshalJSON: the zero value or a Time
Receivers ==
  {ZeroTime,
   [year |-> 2001, month |-> 2, day |-> 3, hour |-> 4, minute |-> 5, second |-> 6,
    offset |-> 0]}

\* data handed to UnmarshalJSON
JsonInputs ==
  {\* a JSON string in RFC 3339 form, UTC
   <<"\"","2","0","2","4","-","0","1","-","1","5","T","1","0",":","3","0",":","0","0","Z","\"">>,
   \* the same instant in the zone +08:00, with white space around it
   <<" ","\"","2","0","2","4","-","0","1","-","1","5","T","1","8",":","3","0",":","0","0","+","0","8",":","0","0","\""," ">>,
   \* null
   <<"n","u","l","l">>,
   \* a number
   <<"1","7","0","5","3","1","4","6","0","0">>,
   \* an object
   <<"{","}">>,
   \* text without quotes
   <<"2","0","2","4","-","0","1","-","1","5","T","1","0",":","3","0",":","0","0","Z">>,
   \* the empty string
   <<"\"","\"">>,
   \* a date without a time
   <<"\"","2","0","2","4","-","0","1","-","1","5","\"">>,
   \* a blank for the T
   <<"\"","2","0","2","4","-","0","1","-","1","5"," ","1","0",":","3","0",":","0","0","Z","\"">>,
   \* no zone
   <<"\"","2","0","2","4","-","0","1","-","1","5","T","1","0",":","3","0",":","0","0","\"">>,
   \* February 30
   <<"\"","2","0","2","4","-","0","2","-","3","0","T","0","0",":","0","0",":","0","0","Z","\"">>,
   \* hour 24
   <<"\"","2","0","2","4","-","0","1","-","1","5","T","2","4",":","0","0",":","0","0","Z","\"">>,
   \* an hour of one digit
   <<"\"","2","0","2","4","-","0","1","-","1","5","T","1",":","0","2",":","0","3","Z","\"">>}

InitTime ==
  /\ nclients = 0
  /\ newArgs = [token |-> "", options |-> <<>>]
  /\ newErr = FALSE
  /\ client = None
  /\ pc = "idle"
  /\ request = NoRequest
  /\ served = <<>>
  /\ last = None
  /\ ret = NoReturn
  /\ ctx = "live"
  /\ loop = NoLoop
  /\ server = NoServer
  /\ callers = NoCallers
  /\ \E t \in Times : \E u \in Receivers : jsonTime = [NoTime EXCEPT !.t = t, !.u = u, !.was = u]

NextTime ==
  \/ MarshalJSON
  \/ jsonTime.did = "MarshalJSON" /\ UnmarshalJSON(jsonTime.data)
  \/ \E data \in JsonInputs : UnmarshalJSON(data)

SpecTime == InitTime /\ [][NextTime]_vars

\* a date and time as RFC 3339 writes it: date-time = full-date "T" full-time,
\* four digits of year, two each of month, day, hour, minute and second, an
\* optional fraction of a second, and "Z" or a numeric offset; t and z may be
\* in lower case and the second may be 60
IsRFC3339(s) ==
  LET n == Len(s)
      digits(lo, hi) == hi <= n /\ \A i \in lo..hi : s[i] \in Digits
      num(lo, hi) == DigitsValue(SubSeq(s, lo, hi), 0)
      runs == {k \in 1..(n - 20) : digits(21, 20 + k)}
      fl == IF n >= 20 /\ s[20] = "." /\ runs # {}
            THEN 1 + (CHOOSE k \in runs : \A j \in runs : j <= k) ELSE 0
      z == 20 + fl
  IN  /\ n >= 20
      /\ digits(1, 4) /\ s[5] = "-" /\ digits(6, 7) /\ s[8] = "-" /\ digits(9, 10)
      /\ s[11] \in {"T", "t"}
      /\ digits(12, 13) /\ s[14] = ":" /\ digits(15, 16) /\ s[17] = ":" /\ digits(18, 19)
      /\ num(6, 7) \in 1..12 /\ num(9, 10) \in 1..daysIn(num(6, 7), num(1, 4))
      /\ num(12, 13) <= 23 /\ num(15, 16) <= 59 /\ num(18, 19) <= 60
      /\ \/ n = z /\ s[z] \in {"Z", "z"}
         \/ /\ n = z + 5 /\ s[z] \in {"+", "-"} /\ digits(z + 1, z + 2) /\ s[z + 3] = ":"
            /\ digits(z + 4, z + 5) /\ num(z + 1, z + 2) <= 23 /\ num(z + 4, z + 5) <= 59

\* data is a JSON string in RFC 3339 form
InRFC3339Form(data) ==
  JsonUnmarshalString(data).err = NoError /\ IsRFC3339(JsonUnmarshalString(data).s)

\* the last call was UnmarshalJSON of what MarshalJSON makes of t
RoundTripped ==
  jsonTime.did = "UnmarshalJSON" /\ jsonTime.data = TimeMarshalJSON(jsonTime.t).data

\* C30: Time goes through JSON and back: MarshalJSON of a Time t returns
\* the JSON string of t.String(), which is in RFC 3339 form; UnmarshalJSON
\* of that data returns no error and leaves in the receiver the instant of
\* t; UnmarshalJSON of data that is not a JSON string in RFC 3339 form
\* returns an error and leaves the receiver as it was
C30_TimeRoundTrip ==
  /\ jsonTime.did = "MarshalJSON" =>
        /\ jsonTime.err = NoError
        /\ jsonTime.data = JsonQuote(TimeString(jsonTime.t))
        /\ InRFC3339Form(jsonTime.data)
  /\ RoundTripped => jsonTime.err = NoError /\ Equal(jsonTime.u, jsonTime.t)
  /\ (jsonTime.did = "UnmarshalJSON" /\ ~InRFC3339Form(jsonTime.data)) =>
        jsonTime.err # NoError /\ jsonTime.u = jsonTime.was

====
